---------------------------- MODULE Spec2Model ----------------------------
(***************************************************************************)
(* A model of the pyrinas compiler (src/c_compiler): lexer, parser,        *)
(* semantic analyzer and the driver that runs them in sequence.            *)
(*                                                                         *)
(* C strings are tuples of one-character strings, so that strcmp,          *)
(* strstr and the lexer's character tests are computed on characters.  A  *)
(* null string is the tuple NULL, which no string of characters equals.    *)
(* A null ASTNode pointer is the record NullNode.                          *)
(***************************************************************************)
EXTENDS Integers, Sequences, FiniteSets, TLC

VARIABLES
    tc,       \* one call of types_compatible: its arguments and its result
    lexer,    \* the Lexer object (lexer.h:92-103) and the position in lexer_tokenize
    parser,   \* the Parser object (parser.h:7-12), its input and the tree it returned
    sem,      \* the SemanticAnalyzer (semantic.h:80-98) and the position in analyze_module
    drv,      \* the driver's position in main (main.c:76-284) and what it has done
    cg        \* the CodeGenerator (codegen.h) and the position in codegen_generate

vars == <<tc, lexer, parser, sem, drv, cg>>

-----------------------------------------------------------------------------
(* C strings *)

NULL == <<"NULL">>

NullNode == [type |-> "NULL"]

\* A NULL Lexer, Parser, SemanticAnalyzer or CodeGenerator pointer, and the
\* field a struct does not have.
NullObject == [type |-> "NULL"]

\* strstr(haystack, needle) != NULL
StrStr(haystack, needle) ==
    \E i \in 1..(Len(haystack) - Len(needle) + 1) :
        SubSeq(haystack, i, i + Len(needle) - 1) = needle

\* strstr(haystack, needle) == haystack
StrStrAtStart(haystack, needle) ==
    /\ Len(needle) <= Len(haystack)
    /\ SubSeq(haystack, 1, Len(needle)) = needle

\* strchr(s, c) != NULL
StrChr(s, c) == \E i \in 1..Len(s) : s[i] = c

S_int == <<"i", "n", "t">>
S_float == <<"f", "l", "o", "a", "t">>
S_bool == <<"b", "o", "o", "l">>
S_str == <<"s", "t", "r">>
S_void == <<"v", "o", "i", "d">>
S_None == <<"N", "o", "n", "e">>
S_ptr_open == <<"p", "t", "r", "[">>
S_ptr_void == <<"p", "t", "r", "[", "v", "o", "i", "d", "]">>
S_ptr_int == <<"p", "t", "r", "[", "i", "n", "t", "]">>
S_range_object == <<"r", "a", "n", "g", "e", "_", "o", "b", "j", "e", "c", "t">>
S_main == <<"m", "a", "i", "n">>
S_print == <<"p", "r", "i", "n", "t">>
S_range == <<"r", "a", "n", "g", "e">>
S_Enum == <<"E", "n", "u", "m">>

-----------------------------------------------------------------------------
(* semantic.c: type utilities *)

\* A slip that tests the first argument for "ptr[" where the second is meant.
types_compatible_swapped_ptr(type1, type2) ==
    IF type1 = NULL \/ type2 = NULL THEN FALSE
    ELSE IF type1 = type2 THEN TRUE
    ELSE IF type1 = S_bool /\ type2 = S_int THEN TRUE
    ELSE IF StrStr(type2, S_ptr_open) /\ type1 = S_ptr_void THEN TRUE
    ELSE FALSE

\* A slip that lets int accept bool as well as bool accept int.
types_compatible_symmetric_bool(type1, type2) ==
    IF type1 = NULL \/ type2 = NULL THEN FALSE
    ELSE IF type1 = type2 THEN TRUE
    ELSE IF {type1, type2} = {S_bool, S_int} THEN TRUE
    ELSE IF StrStr(type1, S_ptr_open) /\ type2 = S_ptr_void THEN TRUE
    ELSE FALSE

\* A slip that takes a value without a type as compatible with every type.
types_compatible_untyped(type1, type2) ==
    IF type1 = NULL THEN FALSE
    ELSE IF type2 = NULL \/ type1 = type2 THEN TRUE
    ELSE IF type1 = S_bool /\ type2 = S_int THEN TRUE
    ELSE IF StrStr(type1, S_ptr_open) /\ type2 = S_ptr_void THEN TRUE
    ELSE FALSE

types_compatible(type1, type2) ==
    IF type1 = NULL \/ type2 = NULL THEN FALSE
    ELSE IF type1 = type2 THEN TRUE
    ELSE IF type1 = S_bool /\ type2 = S_int THEN TRUE
    ELSE IF StrStr(type1, S_ptr_open) /\ type2 = S_ptr_void THEN TRUE
    ELSE FALSE

is_pointer_type(type) == type # NULL /\ StrStrAtStart(type, S_ptr_open)

-----------------------------------------------------------------------------
(* The type strings one call of types_compatible is tried on *)

\* The longest run of extra characters put before or after a known type string.
MaxAffix == 1

AffixChars == {"x", "["}

RECURSIVE SeqsUpTo(_, _)
SeqsUpTo(S, n) ==
    IF n = 0 THEN {<<>>}
    ELSE LET shorter == SeqsUpTo(S, n - 1)
         IN  shorter \cup {Append(s, c) : s \in shorter, c \in S}

S_Result_ptr_int_str ==
    <<"R", "e", "s", "u", "l", "t", "[", "p", "t", "r", "[", "i", "n", "t", "]",
      ",", " ", "s", "t", "r", "]">>

KnownTypes ==
    {S_int, S_float, S_bool, S_str, S_void, S_None, S_ptr_void, S_ptr_int,
     S_ptr_open, S_Result_ptr_int_str, <<"P">>}

TypeStrings ==
    {pre \o t \o suf : pre \in SeqsUpTo(AffixChars, MaxAffix),
                       t \in KnownTypes,
                       suf \in SeqsUpTo(AffixChars, MaxAffix)}

TcIdle == [pc |-> "idle"]

TcInit == tc \in [pc : {"call"}, a : TypeStrings \cup {NULL}, b : TypeStrings \cup {NULL}]

LexerIdle == [pc |-> "idle"]

ParserIdle == [pc |-> "idle"]

SemIdle == [pc |-> "idle"]

DrvIdle == [pc |-> "idle"]

CgIdle == [pc |-> "idle"]

\* One call types_compatible(a, b).
CallTypesCompatible ==
    /\ tc.pc = "call"
    /\ tc' = [pc |-> "returned", a |-> tc.a, b |-> tc.b,
              result |-> types_compatible(tc.a, tc.b)]
    /\ UNCHANGED <<lexer, parser, sem, drv, cg>>

SpecTypesInit ==
    /\ TcInit
    /\ lexer = LexerIdle
    /\ parser = ParserIdle
    /\ sem = SemIdle
    /\ drv = DrvIdle
    /\ cg = CgIdle

SpecTypesNext == CallTypesCompatible

SpecTypes == SpecTypesInit /\ [][SpecTypesNext]_vars

\* C8: for all type strings a and b, types_compatible(a, b) is true exactly when
\* a equals b, or a is "bool" and b is "int", or a begins with "ptr[" and b is
\* "ptr[void]".
C8_CompatibleIffSpecRules ==
    (tc.pc = "returned" /\ tc.a # NULL /\ tc.b # NULL) =>
        (tc.result <=> \/ tc.a = tc.b
                       \/ tc.a = S_bool /\ tc.b = S_int
                       \/ StrStrAtStart(tc.a, S_ptr_open) /\ tc.b = S_ptr_void)

-----------------------------------------------------------------------------
(* lexer.c *)

\* What lexer_current_char returns at the end of the source: the '\0' byte.
NUL == "NUL"

Digits == {"0", "1", "2", "3", "4", "5", "6", "7", "8", "9"}

Letters ==
    {"a", "b", "c", "d", "e", "f", "g", "h", "i", "j", "k", "l", "m",
     "n", "o", "p", "q", "r", "s", "t", "u", "v", "w", "x", "y", "z",
     "A", "B", "C", "D", "E", "F", "G", "H", "I", "J", "K", "L", "M",
     "N", "O", "P", "Q", "R", "S", "T", "U", "V", "W", "X", "Y", "Z"}

keywords == {
    [keyword |-> <<"d", "e", "f">>, type |-> "TOK_DEF"],
    [keyword |-> <<"c", "l", "a", "s", "s">>, type |-> "TOK_CLASS"],
    [keyword |-> <<"i", "f">>, type |-> "TOK_IF"],
    [keyword |-> <<"e", "l", "s", "e">>, type |-> "TOK_ELSE"],
    [keyword |-> <<"e", "l", "i", "f">>, type |-> "TOK_ELIF"],
    [keyword |-> <<"w", "h", "i", "l", "e">>, type |-> "TOK_WHILE"],
    [keyword |-> <<"f", "o", "r">>, type |-> "TOK_FOR"],
    [keyword |-> <<"b", "r", "e", "a", "k">>, type |-> "TOK_BREAK"],
    [keyword |-> <<"c", "o", "n", "t", "i", "n", "u", "e">>, type |-> "TOK_CONTINUE"],
    [keyword |-> <<"r", "e", "t", "u", "r", "n">>, type |-> "TOK_RETURN"],
    [keyword |-> <<"p", "a", "s", "s">>, type |-> "TOK_PASS"],
    [keyword |-> <<"m", "a", "t", "c", "h">>, type |-> "TOK_MATCH"],
    [keyword |-> <<"c", "a", "s", "e">>, type |-> "TOK_CASE"],
    [keyword |-> <<"i", "n">>, type |-> "TOK_IN"],
    [keyword |-> <<"a", "n", "d">>, type |-> "TOK_AND"],
    [keyword |-> <<"o", "r">>, type |-> "TOK_OR"],
    [keyword |-> <<"n", "o", "t">>, type |-> "TOK_NOT"],
    [keyword |-> <<"T", "r", "u", "e">>, type |-> "TOK_TRUE"],
    [keyword |-> <<"F", "a", "l", "s", "e">>, type |-> "TOK_FALSE"],
    [keyword |-> <<"N", "o", "n", "e">>, type |-> "TOK_NONE"],
    [keyword |-> <<"i", "m", "p", "o", "r", "t">>, type |-> "TOK_IMPORT"],
    [keyword |-> <<"f", "r", "o", "m">>, type |-> "TOK_FROM"],
    [keyword |-> <<"a", "s">>, type |-> "TOK_AS"]}

S_IndentationError ==
    <<"I", "n", "d", "e", "n", "t", "a", "t", "i", "o", "n", "E", "r", "r", "o", "r">>

S_UnexpectedCharacter ==
    <<"U", "n", "e", "x", "p", "e", "c", "t", "e", "d", " ",
      "c", "h", "a", "r", "a", "c", "t", "e", "r">>

token_new(type, value, line, column) ==
    [type |-> type, value |-> value, line |-> line, column |-> column]

\* token_array_push on lexer->tokens
token_array_push(lx, token) == [lx EXCEPT !.tokens = Append(@, token)]

\* indent_count is the length of indent_stack: the entries above it that the
\* C array still holds after a pop are never read again.
lexer_new(source) ==
    [source |-> source, position |-> 0, length |-> Len(source),
     line |-> 1, column |-> 1, at_line_start |-> TRUE,
     indent_stack |-> <<0>>, tokens |-> <<>>]

is_keyword(str) == \E k \in keywords : k.keyword = str

keyword_token_type(str) ==
    IF is_keyword(str) THEN (CHOOSE k \in keywords : k.keyword = str).type
    ELSE "TOK_IDENTIFIER"

is_identifier_start(c) == c \in Letters \/ c = "_"

is_identifier_char(c) == c \in Letters \/ c \in Digits \/ c = "_"

lexer_current_char(lx) ==
    IF lx.position >= lx.length THEN NUL ELSE lx.source[lx.position + 1]

lexer_peek_char(lx) ==
    IF lx.position + 1 >= lx.length THEN NUL ELSE lx.source[lx.position + 2]

lexer_advance(lx) ==
    IF lx.position < lx.length
    THEN IF lx.source[lx.position + 1] = "\n"
         THEN [lx EXCEPT !.line = @ + 1, !.column = 1, !.at_line_start = TRUE,
                         !.position = @ + 1]
         ELSE [lx EXCEPT !.column = @ + 1, !.at_line_start = FALSE,
                         !.position = @ + 1]
    ELSE lx

RECURSIVE lexer_skip_whitespace(_)
lexer_skip_whitespace(lx) ==
    IF lexer_current_char(lx) \in {" ", "\t"}
    THEN lexer_skip_whitespace([lexer_advance(lx) EXCEPT !.at_line_start = FALSE])
    ELSE lx

RECURSIVE lexer_skip_comment_loop(_)
lexer_skip_comment_loop(lx) ==
    IF lexer_current_char(lx) # "\n" /\ lexer_current_char(lx) # NUL
    THEN lexer_skip_comment_loop(lexer_advance(lx))
    ELSE lx

lexer_skip_comment(lx) ==
    IF lexer_current_char(lx) = "#" THEN lexer_skip_comment_loop(lx) ELSE lx

\* The loop of lexer_handle_indentation that counts the leading columns.
RECURSIVE count_indent(_, _)
count_indent(lx, indent_level) ==
    IF lexer_current_char(lx) = " "
    THEN count_indent(lexer_advance(lx), indent_level + 1)
    ELSE IF lexer_current_char(lx) = "\t"
    THEN count_indent(lexer_advance(lx), indent_level + 8)
    ELSE [lx |-> lx, indent_level |-> indent_level]

\* The loop of lexer_handle_indentation that pops the entries above indent_level.
RECURSIVE pop_dedents(_, _)
pop_dedents(lx, indent_level) ==
    IF Len(lx.indent_stack) > 1 /\ lx.indent_stack[Len(lx.indent_stack)] > indent_level
    THEN pop_dedents(
             token_array_push(
                 [lx EXCEPT !.indent_stack = SubSeq(@, 1, Len(@) - 1)],
                 token_new("TOK_DEDENT", NULL, lx.line, lx.column)),
             indent_level)
    ELSE lx

\* The same loop leaving the popped entry on the stack.
handle_dedent_no_pop(lx, indent_level) ==
    IF Len(lx.indent_stack) > 1 /\ lx.indent_stack[Len(lx.indent_stack)] > indent_level
    THEN token_array_push(lx, token_new("TOK_DEDENT", NULL, lx.line, lx.column))
    ELSE lx

\* handle_dedent without the test of the new top of the stack.
handle_dedent_no_error(lx, indent_level) == pop_dedents(lx, indent_level)

\* A dedent treated as an indent is: the level is pushed above the higher one.
handle_dedent_as_indent(lx, indent_level) ==
    token_array_push([lx EXCEPT !.indent_stack = Append(@, indent_level)],
                     token_new("TOK_INDENT", NULL, lx.line, lx.column))

handle_dedent(lx, indent_level) ==
    LET popped == pop_dedents(lx, indent_level)
    IN  IF popped.indent_stack[Len(popped.indent_stack)] # indent_level
        THEN token_array_push(popped,
                 token_new("TOK_ERROR", S_IndentationError, popped.line, popped.column))
        ELSE popped

lexer_handle_indentation(lx) ==
    IF ~lx.at_line_start THEN lx
    ELSE LET counted == count_indent(lx, 0)
             indent_level == counted.indent_level
             l1 == [counted.lx EXCEPT !.at_line_start = FALSE]
             current_indent == l1.indent_stack[Len(l1.indent_stack)]
         IN  IF lexer_current_char(counted.lx) \in {"\n", "#"} THEN l1
             ELSE IF indent_level > current_indent
             THEN token_array_push(
                      [l1 EXCEPT !.indent_stack = Append(@, indent_level)],
                      token_new("TOK_INDENT", NULL, l1.line, l1.column))
             ELSE IF indent_level < current_indent
             THEN handle_dedent(l1, indent_level)
             ELSE l1

RECURSIVE read_number_loop(_, _)
read_number_loop(lx, has_dot) ==
    IF lexer_current_char(lx) \in Digits \/ (lexer_current_char(lx) = "." /\ ~has_dot)
    THEN read_number_loop(lexer_advance(lx), has_dot \/ lexer_current_char(lx) = ".")
    ELSE lx

\* lexer_read_number, with the token pushed by the caller (lexer.c:443-444)
lexer_read_number(lx) ==
    LET after == read_number_loop(lx, FALSE)
        value == SubSeq(lx.source, lx.position + 1, after.position)
    IN  token_array_push(after, token_new("TOK_NUMBER", value, lx.line, lx.column))

RECURSIVE read_string_loop(_, _, _)
read_string_loop(lx, quote_char, value) ==
    LET c == lexer_current_char(lx)
    IN  IF c # quote_char /\ c # NUL
        THEN IF c = "\\" /\ lexer_peek_char(lx) # NUL
             THEN LET l1 == lexer_advance(lx)
                      escape == lexer_current_char(l1)
                      decoded ==
                          CASE escape = "n" -> <<"\n">>
                            [] escape = "t" -> <<"\t">>
                            [] escape = "r" -> <<"\r">>
                            [] escape = "\\" -> <<"\\">>
                            [] escape = "\"" -> <<"\"">>
                            [] escape = "'" -> <<"'">>
                            [] OTHER -> <<"\\", escape>>
                  IN  read_string_loop(lexer_advance(l1), quote_char, value \o decoded)
             ELSE read_string_loop(lexer_advance(lx), quote_char, Append(value, c))
        ELSE [lx |-> lx, value |-> value]

\* lexer_read_string, with the token pushed by the caller (lexer.c:450-451)
lexer_read_string(lx) ==
    LET quote_char == lexer_current_char(lx)
        r == read_string_loop(lexer_advance(lx), quote_char, <<>>)
        closed == IF lexer_current_char(r.lx) = quote_char
                  THEN lexer_advance(r.lx) ELSE r.lx
    IN  token_array_push(closed, token_new("TOK_STRING", r.value, lx.line, lx.column))

RECURSIVE read_identifier_loop(_)
read_identifier_loop(lx) ==
    IF is_identifier_char(lexer_current_char(lx))
    THEN read_identifier_loop(lexer_advance(lx))
    ELSE lx

\* lexer_read_identifier, with the token pushed by the caller (lexer.c:457-458)
lexer_read_identifier(lx) ==
    LET after == read_identifier_loop(lx)
        value == SubSeq(lx.source, lx.position + 1, after.position)
        type == IF is_keyword(value) THEN keyword_token_type(value) ELSE "TOK_IDENTIFIER"
    IN  token_array_push(after, token_new(type, value, lx.line, lx.column))

\* The operator and delimiter switch of lexer_tokenize (lexer.c:463-582).
lexer_operator(lx) ==
    LET c == lexer_current_char(lx)
        nxt == lexer_peek_char(lx)
        one(type) == token_array_push(lexer_advance(lx),
                         token_new(type, NULL, lx.line, lx.column))
        two(type) == token_array_push(lexer_advance(lexer_advance(lx)),
                         token_new(type, NULL, lx.line, lx.column))
        bad == token_array_push(lexer_advance(lx),
                   token_new("TOK_ERROR", S_UnexpectedCharacter, lx.line, lx.column))
    IN  CASE c = "+" -> one("TOK_PLUS")
          [] c = "-" -> IF nxt = ">" THEN two("TOK_ARROW") ELSE one("TOK_MINUS")
          [] c = "*" -> one("TOK_MULTIPLY")
          [] c = "/" -> IF nxt = "/" THEN two("TOK_FLOORDIV") ELSE one("TOK_DIVIDE")
          [] c = "%" -> one("TOK_MODULO")
          [] c = "=" -> IF nxt = "=" THEN two("TOK_EQ") ELSE one("TOK_ASSIGN")
          [] c = "!" -> IF nxt = "=" THEN two("TOK_NE") ELSE bad
          [] c = "<" -> IF nxt = "=" THEN two("TOK_LE") ELSE one("TOK_LT")
          [] c = ">" -> IF nxt = "=" THEN two("TOK_GE") ELSE one("TOK_GT")
          [] c = "(" -> one("TOK_LPAREN")
          [] c = ")" -> one("TOK_RPAREN")
          [] c = "[" -> one("TOK_LBRACKET")
          [] c = "]" -> one("TOK_RBRACKET")
          [] c = "{" -> one("TOK_LBRACE")
          [] c = "}" -> one("TOK_RBRACE")
          [] c = "," -> one("TOK_COMMA")
          [] c = ":" -> one("TOK_COLON")
          [] c = ";" -> one("TOK_SEMICOLON")
          [] c = "." -> one("TOK_DOT")
          [] OTHER -> bad

\* One iteration of the while loop of lexer_tokenize (lexer.c:407-583), entered
\* with position < length.  brk is TRUE when the iteration leaves by break.
lexer_tokenize_iteration(lx) ==
    IF lx.at_line_start
    THEN [lx |-> lexer_handle_indentation(lx), brk |-> FALSE]
    ELSE LET l1 == lexer_skip_whitespace(lx)
             current == lexer_current_char(l1)
         IN  IF current = "#" THEN [lx |-> lexer_skip_comment(l1), brk |-> FALSE]
             ELSE IF current = NUL THEN [lx |-> l1, brk |-> TRUE]
             ELSE IF current = "\n"
             THEN [lx |-> token_array_push(lexer_advance(l1),
                              token_new("TOK_NEWLINE", NULL, l1.line, l1.column)),
                   brk |-> FALSE]
             ELSE IF current \in Digits
             THEN [lx |-> lexer_read_number(l1), brk |-> FALSE]
             ELSE IF current = "\"" \/ current = "'"
             THEN [lx |-> lexer_read_string(l1), brk |-> FALSE]
             ELSE IF is_identifier_start(current)
             THEN [lx |-> lexer_read_identifier(l1), brk |-> FALSE]
             ELSE [lx |-> lexer_operator(l1), brk |-> FALSE]

\* The final DEDENTs of lexer_tokenize (lexer.c:585-590).
RECURSIVE final_dedents(_)
final_dedents(lx) ==
    IF Len(lx.indent_stack) > 1
    THEN final_dedents(
             token_array_push(
                 [lx EXCEPT !.indent_stack = SubSeq(@, 1, Len(@) - 1)],
                 token_new("TOK_DEDENT", NULL, lx.line, lx.column)))
    ELSE lx

\* The end of lexer_tokenize (lexer.c:585-596): final DEDENTs, then EOF.
lexer_tokenize_end(lx) ==
    LET l1 == final_dedents(lx)
    IN  token_array_push(l1, token_new("TOK_EOF", NULL, l1.line, l1.column))

\* lexer_tokenize run to its return: the Lexer it leaves, whose tokens it returns.
RECURSIVE lexer_tokenize(_)
lexer_tokenize(lx) ==
    IF lx.position < lx.length
    THEN LET it == lexer_tokenize_iteration(lx)
         IN  IF it.brk THEN lexer_tokenize_end(it.lx) ELSE lexer_tokenize(it.lx)
    ELSE lexer_tokenize_end(lx)

-----------------------------------------------------------------------------
(* The lexer stepped one loop iteration at a time over sources built of lines *)

\* The number of physical lines of a source text.
MaxLexLines == 3

LexIndents == {<<>>, <<" ">>, <<" ", " ">>, <<"\t">>}

LexBodies == {<<>>, <<"a">>, <<"#">>, <<"!">>}

LexLines == {ind \o body : ind \in LexIndents, body \in LexBodies}

\* The lines joined by newlines, the last one with or without its newline.
RECURSIVE JoinLines(_, _)
JoinLines(lines, last_newline) ==
    IF lines = <<>> THEN <<>>
    ELSE IF Len(lines) = 1
    THEN IF last_newline THEN lines[1] \o <<"\n">> ELSE lines[1]
    ELSE lines[1] \o <<"\n">> \o JoinLines(Tail(lines), last_newline)

LexSources ==
    {JoinLines(lines, nl) : lines \in UNION {[1..n -> LexLines] : n \in 0..MaxLexLines},
                            nl \in BOOLEAN}

LexInit == \E source \in LexSources : lexer = lexer_new(source) @@ [pc |-> "loop"]

LexObject(lx) ==
    [source |-> lx.source, position |-> lx.position, length |-> lx.length,
     line |-> lx.line, column |-> lx.column, at_line_start |-> lx.at_line_start,
     indent_stack |-> lx.indent_stack, tokens |-> lx.tokens]

\* One iteration of the loop of lexer_tokenize.
LexIteration ==
    /\ lexer.pc = "loop"
    /\ lexer.position < lexer.length
    /\ LET it == lexer_tokenize_iteration(LexObject(lexer))
       IN  lexer' = it.lx @@ [pc |-> IF it.brk THEN "end" ELSE "loop"]
    /\ UNCHANGED <<tc, parser, sem, drv, cg>>

\* The loop is left: final DEDENTs and EOF, and lexer_tokenize returns.
LexEnd ==
    /\ \/ lexer.pc = "loop" /\ lexer.position >= lexer.length
       \/ lexer.pc = "end"
    /\ lexer' = lexer_tokenize_end(LexObject(lexer)) @@ [pc |-> "returned"]
    /\ UNCHANGED <<tc, parser, sem, drv, cg>>

SpecLexInit ==
    /\ LexInit
    /\ tc = TcIdle
    /\ parser = ParserIdle
    /\ sem = SemIdle
    /\ drv = DrvIdle
    /\ cg = CgIdle

SpecLexNext == LexIteration \/ LexEnd

SpecLex == SpecLexInit /\ [][SpecLexNext]_vars

\* The number of tokens of the given type in a token stream.
RECURSIVE CountTokens(_, _)
CountTokens(tokens, type) ==
    IF tokens = <<>> THEN 0
    ELSE (IF tokens[1].type = type THEN 1 ELSE 0) + CountTokens(Tail(tokens), type)

HasErrorToken(tokens, message) ==
    \E i \in 1..Len(tokens) : tokens[i].type = "TOK_ERROR" /\ tokens[i].value = message

\* C4: the token stream lexer_tokenize returns holds exactly as many INDENT
\* tokens as DEDENT tokens, whatever ERROR tokens it holds.
C4_IndentDedentBalance ==
    lexer.pc = "returned" =>
        CountTokens(lexer.tokens, "TOK_INDENT") = CountTokens(lexer.tokens, "TOK_DEDENT")

\* A returned stream with an INDENT, an IndentationError and an "Unexpected
\* character" error.
C4_Witness ==
    /\ lexer.pc = "returned"
    /\ CountTokens(lexer.tokens, "TOK_INDENT") >= 1
    /\ HasErrorToken(lexer.tokens, S_IndentationError)
    /\ HasErrorToken(lexer.tokens, S_UnexpectedCharacter)

\* The number of spaces and tabs of the source from the position on.
RECURSIVE BlankCount(_, _)
BlankCount(source, position) ==
    IF position < Len(source) /\ source[position + 1] \in {" ", "\t"}
    THEN 1 + BlankCount(source, position + 1)
    ELSE 0

\* The columns the blanks stand for: a tab counts as 8 spaces.
RECURSIVE IndentWidth(_)
IndentWidth(blanks) ==
    IF blanks = <<>> THEN 0
    ELSE (IF blanks[1] = " " THEN 1 ELSE 8) + IndentWidth(Tail(blanks))

\* The indentation of the line the lexer stands at the start of.
LineIndentation(lx) ==
    IndentWidth(SubSeq(lx.source, lx.position + 1,
                       lx.position + BlankCount(lx.source, lx.position)))

\* The first character of that line that is no blank, NUL at the end of input.
LineFirstChar(lx) ==
    LET first == lx.position + BlankCount(lx.source, lx.position)
    IN  IF first < Len(lx.source) THEN lx.source[first + 1] ELSE NUL

\* The lexer is about to begin a line.
AtLineStart == lexer.pc = "loop" /\ lexer.position < lexer.length /\ lexer.at_line_start

\* The line holds something other than blanks and a comment.
IsCodeLine(lx) == LineFirstChar(lx) \notin {"\n", "#", NUL}

IndentTop(lx) == lx.indent_stack[Len(lx.indent_stack)]

\* The type and the value of each token.
TokenKinds(tokens) == [i \in 1..Len(tokens) |-> <<tokens[i].type, tokens[i].value>>]

\* The tokens a dedent to column c appends on the stack: one DEDENT for each
\* entry above c, then an IndentationError if the entry left on top is not c.
DedentKinds(stack, c) ==
    LET kept == SelectSeq(stack, LAMBDA e : e <= c)
    IN  [i \in 1..(Len(stack) - Len(kept)) |-> <<"TOK_DEDENT", NULL>>]
        \o (IF kept[Len(kept)] # c THEN <<(<<"TOK_ERROR", S_IndentationError>>)>> ELSE <<>>)

\* C17: at the start of a line that is neither blank nor a comment and whose
\* indentation c is below the top of the indent stack, the lexer pops exactly
\* the entries above c, appends one DEDENT for each, then one IndentationError
\* token if and only if the new top is not c, and goes on tokenizing.
C17_DedentPopsEntriesAbove ==
    [][(AtLineStart /\ IsCodeLine(lexer) /\ LineIndentation(lexer) < IndentTop(lexer)) =>
          /\ lexer'.indent_stack
                 = SelectSeq(lexer.indent_stack, LAMBDA e : e <= LineIndentation(lexer))
          /\ TokenKinds(lexer'.tokens)
                 = TokenKinds(lexer.tokens)
                   \o DedentKinds(lexer.indent_stack, LineIndentation(lexer))
          /\ lexer'.pc = "loop"
          /\ lexer'.position = lexer.position + BlankCount(lexer.source, lexer.position)
      ]_vars

\* A dedent has just popped an entry and reported an IndentationError, the
\* stack still holding an entry above its bottom, and the lexer goes on.
C17_Witness ==
    /\ lexer.pc = "loop"
    /\ lexer.position < lexer.length
    /\ ~lexer.at_line_start
    /\ IsCodeLine(lexer)
    /\ Len(lexer.indent_stack) >= 2
    /\ Len(lexer.tokens) >= 2
    /\ TokenKinds(lexer.tokens)[Len(lexer.tokens)] = <<"TOK_ERROR", S_IndentationError>>
    /\ lexer.tokens[Len(lexer.tokens) - 1].type = "TOK_DEDENT"

\* C26: at every point of lexer_tokenize the indent stack is non-empty, its
\* bottom entry is 0 and its entries increase strictly from bottom to top,
\* also after an IndentationError token has been emitted.
C26_IndentStackIncreasing ==
    lexer.pc # "idle" =>
        /\ Len(lexer.indent_stack) >= 1
        /\ lexer.indent_stack[1] = 0
        /\ \A i \in 1..(Len(lexer.indent_stack) - 1) :
               lexer.indent_stack[i] < lexer.indent_stack[i + 1]

\* An IndentationError has been emitted and a later line has pushed a level.
C26_Witness ==
    /\ lexer.pc = "loop"
    /\ Len(lexer.indent_stack) >= 2
    /\ \E i, j \in 1..Len(lexer.tokens) :
           /\ i < j
           /\ lexer.tokens[i].type = "TOK_ERROR"
           /\ lexer.tokens[i].value = S_IndentationError
           /\ lexer.tokens[j].type = "TOK_INDENT"

\* C18: a line of blanks only, or one whose first character after its blanks
\* is '#', appends no INDENT, DEDENT or IndentationError token and leaves the
\* indent stack as it was, also when it is the last line of an input that
\* does not end in a newline.
C18_BlankLineLeavesIndentation ==
    [][(AtLineStart /\ ~IsCodeLine(lexer)) =>
          /\ lexer'.indent_stack = lexer.indent_stack
          /\ lexer'.tokens = lexer.tokens
      ]_vars

-----------------------------------------------------------------------------
(* parser.c: the recursive-descent parser.  A Parser is the record            *)
(* [tokens, current, has_error, error_message]; every parse function takes   *)
(* the Parser and gives back the Parser it leaves and the node it returns.    *)
(* The record also carries raised, the messages parser_error has been called  *)
(* with, in the order of the calls: a history of the calls, no field of       *)
(* struct Parser.  Two more history fields: annotation_failed, set when       *)
(* parse_type_annotation returns NULL, and stalled, set when an iteration of  *)
(* the block loop or of the postfix loop starts again from the state it       *)
(* started from, which the program then repeats without end.                  *)

\* The message of a Parser that has reported no error (error_message is NULL).
NoMessage == "(null)"

\* What current_token returns past the end of the token array.
NullToken == [type |-> "NULL"]

Ret(p, node) == [p |-> p, node |-> node]

parser_new(tokens) ==
    [tokens |-> tokens, current |-> 0, has_error |-> FALSE, error_message |-> NoMessage,
     raised |-> <<>>, annotation_failed |-> FALSE, stalled |-> FALSE]

current_token(p) ==
    IF p.current >= Len(p.tokens) THEN NullToken ELSE p.tokens[p.current + 1]

\* The token current_token returns, if any, has the type.
match_token(p, type) == p.current < Len(p.tokens) /\ p.tokens[p.current + 1].type = type

advance_token(p) ==
    IF p.current < Len(p.tokens) THEN [p EXCEPT !.current = @ + 1] ELSE p

at_end(p) == current_token(p) = NullToken \/ current_token(p).type = "TOK_EOF"

\* The message replaces the one of an earlier call (free, then strdup).
parser_error(p, message) ==
    [p EXCEPT !.has_error = TRUE, !.error_message = message, !.raised = Append(@, message)]

\* parser_error followed by return NULL.
Fail(p, message) == Ret(parser_error(p, message), NullNode)

\* skip_newlines with TOK_ERROR skipped as well.
RECURSIVE skip_newlines_and_errors(_)
skip_newlines_and_errors(p) ==
    IF match_token(p, "TOK_NEWLINE") \/ match_token(p, "TOK_ERROR")
    THEN skip_newlines_and_errors(advance_token(p))
    ELSE p

RECURSIVE skip_newlines(_)
skip_newlines(p) ==
    IF match_token(p, "TOK_NEWLINE") THEN skip_newlines(advance_token(p)) ELSE p

\* What an iteration of a loop does to be sure of ending: it consumes a token
\* or it reports the first error.
Progress(before, after) ==
    after.current > before.current \/ (after.has_error /\ ~before.has_error)

\* An iteration of a loop without Progress starts again from where it started:
\* the loop does not end, and the evaluation stops here with stalled set.
Stall(p) == [p EXCEPT !.stalled = TRUE]

\* node_array_push on a NodeArray: a NULL node is not stored (ast.c:71-72).
node_array_push(arr, node) == IF node = NullNode THEN arr ELSE Append(arr, node)

\* The value atoi gives for the digits a NUMBER token starts with.
DigitValue(c) == CHOOSE d \in 0..9 : <<"0", "1", "2", "3", "4", "5", "6", "7", "8", "9">>[d + 1] = c

RECURSIVE atoi_loop(_, _)
atoi_loop(s, acc) ==
    IF s = <<>> \/ s[1] \notin Digits THEN acc
    ELSE atoi_loop(Tail(s), acc * 10 + DigitValue(s[1]))

atoi(s) == atoi_loop(s, 0)

\* The value atof gives for digits '.' digits: the decimal mant / 10^scale,
\* with the trailing zeros of the fraction dropped.
RECURSIVE atof_fraction(_, _, _)
atof_fraction(s, mant, scale) ==
    IF s = <<>> \/ s[1] \notin Digits THEN [mant |-> mant, scale |-> scale]
    ELSE atof_fraction(Tail(s), mant * 10 + DigitValue(s[1]), scale + 1)

RECURSIVE atof_normalize(_)
atof_normalize(v) ==
    IF v.scale > 0 /\ v.mant % 10 = 0
    THEN atof_normalize([mant |-> v.mant \div 10, scale |-> v.scale - 1])
    ELSE v

RECURSIVE atof_skip_int(_)
atof_skip_int(s) == IF s = <<>> \/ s[1] \notin Digits THEN s ELSE atof_skip_int(Tail(s))

atof(s) ==
    LET rest == atof_skip_int(s)
    IN  IF rest # <<>> /\ rest[1] = "."
        THEN atof_normalize(atof_fraction(Tail(rest), atoi(s), 0))
        ELSE [mant |-> atoi(s), scale |-> 0]

RECURSIVE parse_statement(_), parse_function_def(_), parse_class_def(_),
          parse_if_statement(_), parse_while_statement(_), parse_for_statement(_),
          parse_return_statement(_), parse_assign_statement(_),
          parse_expression_statement(_), parse_expression(_),
          parse_or_expression(_), parse_and_expression(_), parse_not_expression(_),
          parse_comparison(_), parse_arithmetic_expression(_), parse_term(_),
          parse_factor(_), parse_primary(_), parse_call(_, _), parse_attribute(_, _),
          parse_subscript(_, _), parse_arguments(_), parse_statement_list(_),
          parse_type_annotation(_), Call(_, _)

\* The block every compound statement parses after its ':' (as parser.c:178-200):
\* skip_newlines, INDENT, parse_statement_list, DEDENT.
parse_indented_block(p, dedent_message) ==
    LET p1 == skip_newlines(p)
    IN  IF ~match_token(p1, "TOK_INDENT")
        THEN [p |-> parser_error(p1, "Expected indented block after ':'"),
              ok |-> FALSE, body |-> <<>>]
        ELSE LET b == Call("parse_statement_list", advance_token(p1))
             IN  IF ~match_token(b.p, "TOK_DEDENT")
                 THEN [p |-> parser_error(b.p, dedent_message), ok |-> FALSE, body |-> <<>>]
                 ELSE [p |-> advance_token(b.p), ok |-> TRUE, body |-> b.node]

parse_statement(p0) ==
    LET p == skip_newlines(p0)
        token == current_token(p)
    IN  IF token = NullToken THEN Ret(p, NullNode)
        ELSE CASE token.type = "TOK_DEF" -> Call("parse_function_def", p)
               [] token.type = "TOK_CLASS" -> Call("parse_class_def", p)
               [] token.type = "TOK_IF" -> Call("parse_if_statement", p)
               [] token.type = "TOK_WHILE" -> Call("parse_while_statement", p)
               [] token.type = "TOK_FOR" -> Call("parse_for_statement", p)
               [] token.type = "TOK_RETURN" -> Call("parse_return_statement", p)
               [] token.type = "TOK_BREAK" ->
                      Ret(advance_token(p), [type |-> "AST_BREAK", label |-> NULL])
               [] token.type = "TOK_CONTINUE" ->
                      Ret(advance_token(p), [type |-> "AST_CONTINUE", label |-> NULL])
               [] token.type = "TOK_PASS" -> Ret(advance_token(p), [type |-> "AST_PASS"])
               [] token.type = "TOK_IDENTIFIER" -> Call("parse_assign_statement", p)
               [] OTHER -> Call("parse_expression_statement", p)

parse_function_def(p0) ==
    IF ~match_token(p0, "TOK_DEF") THEN Fail(p0, "Expected 'def'")
    ELSE
    LET p1 == advance_token(p0)
        name_token == current_token(p1)
    IN
    IF ~match_token(p1, "TOK_IDENTIFIER") THEN Fail(p1, "Expected function name")
    ELSE
    LET p2 == advance_token(p1) IN
    IF ~match_token(p2, "TOK_LPAREN") THEN Fail(p2, "Expected '(' after function name")
    ELSE
    LET args == Call("parse_arguments", advance_token(p2)) IN
    IF ~match_token(args.p, "TOK_RPAREN") THEN Fail(args.p, "Expected ')' after parameters")
    ELSE
    LET p3 == advance_token(args.p)
        returns == IF match_token(p3, "TOK_ARROW")
                   THEN Call("parse_type_annotation", advance_token(p3))
                   ELSE Ret(p3, NullNode)
    IN
    IF ~match_token(returns.p, "TOK_COLON")
    THEN Fail(returns.p, "Expected ':' after function signature")
    ELSE
    LET b == parse_indented_block(advance_token(returns.p),
                                  "Expected dedent after function body")
    IN
    IF ~b.ok THEN Ret(b.p, NullNode)
    ELSE Ret(b.p, [type |-> "AST_FUNCTION_DEF", name |-> name_token.value,
                   args |-> args.node, returns |-> returns.node, body |-> b.body])

\* The do-while of parse_class_def, parse_call and parse_parameter_list:
\* expressions separated by commas, the NULL ones not stored.
RECURSIVE parse_expression_list(_, _)
parse_expression_list(p, arr) ==
    LET e == Call("parse_expression", p)
        arr1 == node_array_push(arr, e.node)
    IN  IF match_token(e.p, "TOK_COMMA")
        THEN parse_expression_list(advance_token(e.p), arr1)
        ELSE Ret(e.p, arr1)

parse_class_def(p0) ==
    IF ~match_token(p0, "TOK_CLASS") THEN Fail(p0, "Expected 'class'")
    ELSE
    LET p1 == advance_token(p0)
        name_token == current_token(p1)
    IN
    IF ~match_token(p1, "TOK_IDENTIFIER") THEN Fail(p1, "Expected class name")
    ELSE
    LET p2 == advance_token(p1)
        has_paren == match_token(p2, "TOK_LPAREN")
        bases == IF ~has_paren THEN Ret(p2, <<>>)
                 ELSE IF match_token(advance_token(p2), "TOK_RPAREN")
                 THEN Ret(advance_token(p2), <<>>)
                 ELSE parse_expression_list(advance_token(p2), <<>>)
    IN
    IF has_paren /\ ~match_token(bases.p, "TOK_RPAREN")
    THEN Fail(bases.p, "Expected ')' after base classes")
    ELSE
    LET p3 == IF has_paren THEN advance_token(bases.p) ELSE bases.p IN
    IF ~match_token(p3, "TOK_COLON") THEN Fail(p3, "Expected ':' after class name")
    ELSE
    LET b == parse_indented_block(advance_token(p3), "Expected dedent after class body") IN
    IF ~b.ok THEN Ret(b.p, NullNode)
    ELSE Ret(b.p, [type |-> "AST_CLASS_DEF", name |-> name_token.value,
                   bases |-> bases.node, body |-> b.body])

parse_if_statement(p0) ==
    IF ~match_token(p0, "TOK_IF") THEN Fail(p0, "Expected 'if'")
    ELSE
    LET test == Call("parse_expression", advance_token(p0)) IN
    IF test.node = NullNode THEN Fail(test.p, "Expected condition after 'if'")
    ELSE
    IF ~match_token(test.p, "TOK_COLON") THEN Fail(test.p, "Expected ':' after if condition")
    ELSE
    LET b == parse_indented_block(advance_token(test.p), "Expected dedent after if body") IN
    IF ~b.ok THEN Ret(b.p, NullNode)
    ELSE
    IF ~match_token(b.p, "TOK_ELSE")
    THEN Ret(b.p, [type |-> "AST_IF", test |-> test.node, body |-> b.body, orelse |-> <<>>])
    ELSE
    LET p1 == advance_token(b.p) IN
    IF ~match_token(p1, "TOK_COLON") THEN Fail(p1, "Expected ':' after 'else'")
    ELSE
    LET else_body == parse_indented_block(advance_token(p1), "Expected dedent after else body") IN
    IF ~else_body.ok THEN Ret(else_body.p, NullNode)
    ELSE Ret(else_body.p, [type |-> "AST_IF", test |-> test.node, body |-> b.body,
                           orelse |-> else_body.body])

parse_while_statement(p0) ==
    IF ~match_token(p0, "TOK_WHILE") THEN Fail(p0, "Expected 'while'")
    ELSE
    LET test == Call("parse_expression", advance_token(p0)) IN
    IF test.node = NullNode THEN Fail(test.p, "Expected condition after 'while'")
    ELSE
    IF ~match_token(test.p, "TOK_COLON")
    THEN Fail(test.p, "Expected ':' after while condition")
    ELSE
    LET b == parse_indented_block(advance_token(test.p), "Expected dedent after while body") IN
    IF ~b.ok THEN Ret(b.p, NullNode)
    ELSE Ret(b.p, [type |-> "AST_WHILE", test |-> test.node, body |-> b.body])

parse_for_statement(p0) ==
    IF ~match_token(p0, "TOK_FOR") THEN Fail(p0, "Expected 'for'")
    ELSE
    LET target == Call("parse_expression", advance_token(p0)) IN
    IF target.node = NullNode THEN Fail(target.p, "Expected variable after 'for'")
    ELSE
    IF ~match_token(target.p, "TOK_IN") THEN Fail(target.p, "Expected 'in' after for variable")
    ELSE
    LET iter == Call("parse_expression", advance_token(target.p)) IN
    IF iter.node = NullNode THEN Fail(iter.p, "Expected iterable after 'in'")
    ELSE
    IF ~match_token(iter.p, "TOK_COLON") THEN Fail(iter.p, "Expected ':' after for clause")
    ELSE
    LET b == parse_indented_block(advance_token(iter.p), "Expected dedent after for body") IN
    IF ~b.ok THEN Ret(b.p, NullNode)
    ELSE Ret(b.p, [type |-> "AST_FOR", target |-> target.node, iter |-> iter.node,
                   body |-> b.body])

parse_return_statement(p0) ==
    IF ~match_token(p0, "TOK_RETURN") THEN Fail(p0, "Expected 'return'")
    ELSE
    LET p1 == advance_token(p0)
        value == IF ~match_token(p1, "TOK_NEWLINE") /\ ~at_end(p1)
                 THEN Call("parse_expression", p1)
                 ELSE Ret(p1, NullNode)
    IN  Ret(value.p, [type |-> "AST_RETURN", value |-> value.node])

parse_assign_statement(p0) ==
    LET target == Call("parse_expression", p0) IN
    IF target.node = NullNode THEN Ret(target.p, NullNode)
    ELSE
    IF match_token(target.p, "TOK_COLON")
    THEN LET annotation == Call("parse_type_annotation", advance_token(target.p))
             value == IF match_token(annotation.p, "TOK_ASSIGN")
                      THEN Call("parse_expression", advance_token(annotation.p))
                      ELSE Ret(annotation.p, NullNode)
         IN  Ret(value.p, [type |-> "AST_ANN_ASSIGN", target |-> target.node,
                           annotation |-> annotation.node, value |-> value.node])
    ELSE
    IF match_token(target.p, "TOK_ASSIGN")
    THEN LET value == Call("parse_expression", advance_token(target.p))
         IN  Ret(value.p, [type |-> "AST_ASSIGN",
                           targets |-> node_array_push(<<>>, target.node),
                           value |-> value.node])
    ELSE Ret(target.p, [type |-> "AST_EXPR_STMT", value |-> target.node])

parse_expression_statement(p0) ==
    LET expr == Call("parse_expression", p0) IN
    IF expr.node = NullNode THEN Ret(expr.p, NullNode)
    ELSE Ret(expr.p, [type |-> "AST_EXPR_STMT", value |-> expr.node])

parse_expression(p) == parse_or_expression(p)

\* The while loop of parse_or_expression.
\* (left.p is the Parser, left.node the operand parsed so far.)
RECURSIVE parse_or_loop(_)
parse_or_loop(left) ==
    IF match_token(left.p, "TOK_OR")
    THEN LET right == Call("parse_and_expression", advance_token(left.p))
             values == node_array_push(node_array_push(<<>>, left.node), right.node)
         IN  parse_or_loop(Ret(right.p, [type |-> "AST_BOOLOP", op |-> "BOOLOP_OR",
                                         values |-> values]))
    ELSE left

parse_or_expression(p) == parse_or_loop(parse_and_expression(p))

\* The while loop of parse_and_expression.
RECURSIVE parse_and_loop(_)
parse_and_loop(left) ==
    IF match_token(left.p, "TOK_AND")
    THEN LET right == Call("parse_not_expression", advance_token(left.p))
             values == node_array_push(node_array_push(<<>>, left.node), right.node)
         IN  parse_and_loop(Ret(right.p, [type |-> "AST_BOOLOP", op |-> "BOOLOP_AND",
                                          values |-> values]))
    ELSE left

parse_and_expression(p) == parse_and_loop(parse_not_expression(p))

parse_not_expression(p) ==
    IF match_token(p, "TOK_NOT")
    THEN LET operand == Call("parse_not_expression", advance_token(p))
         IN  Ret(operand.p, [type |-> "AST_UNARYOP", op |-> "UNARYOP_NOT",
                             operand |-> operand.node])
    ELSE parse_comparison(p)

\* The switch of parse_comparison from the operator token to the CompareOpType.
compare_op(type) ==
    CASE type = "TOK_EQ" -> "CMP_EQ"
      [] type = "TOK_NE" -> "CMP_NOTEQ"
      [] type = "TOK_LT" -> "CMP_LT"
      [] type = "TOK_LE" -> "CMP_LTE"
      [] type = "TOK_GT" -> "CMP_GT"
      [] type = "TOK_GE" -> "CMP_GTE"
      [] OTHER -> "CMP_EQ"

parse_comparison(p) ==
    LET left == parse_arithmetic_expression(p) IN
    IF \E t \in {"TOK_EQ", "TOK_NE", "TOK_LT", "TOK_LE", "TOK_GT", "TOK_GE"} :
           match_token(left.p, t)
    THEN LET op_token == current_token(left.p)
             right == Call("parse_arithmetic_expression", advance_token(left.p))
         IN  Ret(right.p, [type |-> "AST_COMPARE", left |-> left.node,
                           ops |-> <<compare_op(op_token.type)>>,
                           comparators |-> node_array_push(<<>>, right.node)])
    ELSE left

\* The while loop of parse_arithmetic_expression.
RECURSIVE parse_arithmetic_loop(_)
parse_arithmetic_loop(left) ==
    IF match_token(left.p, "TOK_PLUS") \/ match_token(left.p, "TOK_MINUS")
    THEN LET op == IF match_token(left.p, "TOK_PLUS") THEN "BINOP_ADD" ELSE "BINOP_SUB"
             right == Call("parse_term", advance_token(left.p))
         IN  parse_arithmetic_loop(Ret(right.p, [type |-> "AST_BINOP", left |-> left.node,
                                                 op |-> op, right |-> right.node]))
    ELSE left

parse_arithmetic_expression(p) == parse_arithmetic_loop(parse_term(p))

\* The switch of parse_term from the operator token to the BinOpType.
term_op(type) ==
    CASE type = "TOK_MULTIPLY" -> "BINOP_MULT"
      [] type = "TOK_DIVIDE" -> "BINOP_DIV"
      [] type = "TOK_MODULO" -> "BINOP_MOD"
      [] type = "TOK_FLOORDIV" -> "BINOP_FLOORDIV"
      [] OTHER -> "BINOP_MULT"

\* The while loop of parse_term.
RECURSIVE parse_term_loop(_)
parse_term_loop(left) ==
    IF \E t \in {"TOK_MULTIPLY", "TOK_DIVIDE", "TOK_MODULO", "TOK_FLOORDIV"} :
           match_token(left.p, t)
    THEN LET op_token == current_token(left.p)
             right == Call("parse_factor", advance_token(left.p))
         IN  parse_term_loop(Ret(right.p, [type |-> "AST_BINOP", left |-> left.node,
                                           op |-> term_op(op_token.type),
                                           right |-> right.node]))
    ELSE left

parse_term(p) == parse_term_loop(parse_factor(p))

parse_factor(p) ==
    IF match_token(p, "TOK_MINUS")
    THEN LET operand == Call("parse_factor", advance_token(p))
         IN  Ret(operand.p, [type |-> "AST_UNARYOP", op |-> "UNARYOP_USUB",
                             operand |-> operand.node])
    ELSE IF match_token(p, "TOK_PLUS")
    THEN LET operand == Call("parse_factor", advance_token(p))
         IN  Ret(operand.p, [type |-> "AST_UNARYOP", op |-> "UNARYOP_UADD",
                             operand |-> operand.node])
    ELSE parse_primary(p)

\* The postfix loop of parse_primary: calls, attributes and subscripts.
RECURSIVE parse_postfix_loop(_, _)
parse_postfix_loop(p, node) ==
    IF node = NullNode THEN Ret(p, node)
    ELSE IF match_token(p, "TOK_LPAREN") \/ match_token(p, "TOK_DOT")
            \/ match_token(p, "TOK_LBRACKET")
    THEN LET r == IF match_token(p, "TOK_LPAREN") THEN parse_call(p, node)
                  ELSE IF match_token(p, "TOK_DOT") THEN parse_attribute(p, node)
                  ELSE parse_subscript(p, node)
         IN  IF ~Progress(p, r.p) THEN Ret(Stall(r.p), r.node)
             ELSE parse_postfix_loop(r.p, r.node)
    ELSE Ret(p, node)

parse_primary(p) ==
    LET token == current_token(p) IN
    IF token = NullToken THEN Ret(p, NullNode)
    ELSE
    CASE token.type = "TOK_NUMBER" ->
             parse_postfix_loop(advance_token(p),
                 IF StrChr(token.value, ".")
                 THEN [type |-> "AST_CONSTANT",
                       value |-> [type |-> "CONST_FLOAT", float_val |-> atof(token.value)]]
                 ELSE [type |-> "AST_CONSTANT",
                       value |-> [type |-> "CONST_INT", int_val |-> atoi(token.value)]])
      [] token.type = "TOK_STRING" ->
             parse_postfix_loop(advance_token(p),
                 [type |-> "AST_CONSTANT",
                  value |-> [type |-> "CONST_STRING", str_val |-> token.value]])
      [] token.type = "TOK_TRUE" ->
             parse_postfix_loop(advance_token(p),
                 [type |-> "AST_CONSTANT",
                  value |-> [type |-> "CONST_BOOL", bool_val |-> TRUE]])
      [] token.type = "TOK_FALSE" ->
             parse_postfix_loop(advance_token(p),
                 [type |-> "AST_CONSTANT",
                  value |-> [type |-> "CONST_BOOL", bool_val |-> FALSE]])
      [] token.type = "TOK_NONE" ->
             parse_postfix_loop(advance_token(p),
                 [type |-> "AST_CONSTANT", value |-> [type |-> "CONST_NONE"]])
      [] token.type = "TOK_IDENTIFIER" ->
             parse_postfix_loop(advance_token(p),
                 [type |-> "AST_NAME", id |-> token.value, ctx |-> "CTX_LOAD"])
      [] token.type = "TOK_LPAREN" ->
             LET e == Call("parse_expression", advance_token(p))
             IN  IF ~match_token(e.p, "TOK_RPAREN")
                 THEN Fail(e.p, "Expected ')' after expression")
                 ELSE parse_postfix_loop(advance_token(e.p), e.node)
      [] OTHER -> Fail(p, "Unexpected token in expression")

parse_call(p0, func) ==
    IF ~match_token(p0, "TOK_LPAREN") THEN Ret(p0, func)
    ELSE
    LET p1 == advance_token(p0)
        args == IF ~match_token(p1, "TOK_RPAREN")
                THEN parse_expression_list(p1, <<>>)
                ELSE Ret(p1, <<>>)
    IN  IF ~match_token(args.p, "TOK_RPAREN")
        THEN Ret(parser_error(args.p, "Expected ')' after arguments"), func)
        ELSE Ret(advance_token(args.p),
                 [type |-> "AST_CALL", func |-> func, args |-> args.node])

parse_attribute(p0, value) ==
    IF ~match_token(p0, "TOK_DOT") THEN Ret(p0, value)
    ELSE
    LET p1 == advance_token(p0)
        attr_token == current_token(p1)
    IN  IF ~match_token(p1, "TOK_IDENTIFIER")
        THEN Ret(parser_error(p1, "Expected attribute name after '.'"), value)
        ELSE Ret(advance_token(p1),
                 [type |-> "AST_ATTRIBUTE", value |-> value, attr |-> attr_token.value,
                  ctx |-> "CTX_LOAD"])

parse_subscript(p0, value) ==
    IF ~match_token(p0, "TOK_LBRACKET") THEN Ret(p0, value)
    ELSE
    LET slice == Call("parse_expression", advance_token(p0)) IN
    IF slice.node = NullNode
    THEN Ret(parser_error(slice.p, "Expected expression after '['"), value)
    ELSE IF ~match_token(slice.p, "TOK_RBRACKET")
    THEN Ret(parser_error(slice.p, "Expected ']' after subscript"), value)
    ELSE Ret(advance_token(slice.p),
             [type |-> "AST_SUBSCRIPT", value |-> value, slice |-> slice.node,
              ctx |-> "CTX_LOAD"])

\* The do-while of parse_arguments: name [':' annotation] separated by commas.
RECURSIVE parse_arguments_loop(_, _)
parse_arguments_loop(p, args) ==
    LET name_token == current_token(p) IN
    IF ~match_token(p, "TOK_IDENTIFIER") THEN Fail(p, "Expected parameter name")
    ELSE
    LET p1 == advance_token(p)
        annotation == IF match_token(p1, "TOK_COLON")
                      THEN Call("parse_type_annotation", advance_token(p1))
                      ELSE Ret(p1, NullNode)
        args1 == Append(args, [type |-> "AST_ARG", arg |-> name_token.value,
                               annotation |-> annotation.node])
    IN  IF match_token(annotation.p, "TOK_COMMA")
        THEN parse_arguments_loop(advance_token(annotation.p), args1)
        ELSE Ret(annotation.p, [type |-> "AST_ARGUMENTS", args |-> args1])

parse_arguments(p) ==
    IF ~match_token(p, "TOK_RPAREN")
    THEN parse_arguments_loop(p, <<>>)
    ELSE Ret(p, [type |-> "AST_ARGUMENTS", args |-> <<>>])

\* The while loop of parse_statement_list.
RECURSIVE parse_statement_list_loop(_, _)
parse_statement_list_loop(p, statements) ==
    IF ~match_token(p, "TOK_DEDENT") /\ ~at_end(p)
    THEN LET stmt == Call("parse_statement", p)
             statements1 == node_array_push(statements, stmt.node)
         IN  IF stmt.p.has_error THEN Ret(stmt.p, statements1)
             ELSE IF ~Progress(p, stmt.p) THEN Ret(Stall(stmt.p), statements1)
             ELSE parse_statement_list_loop(skip_newlines(stmt.p), statements1)
    ELSE Ret(p, statements)

parse_statement_list(p) == parse_statement_list_loop(p, <<>>)

\* A return of NULL by parse_type_annotation; annotation_failed records that the
\* parser has had one.
NoAnnotation(p) == Ret([p EXCEPT !.annotation_failed = TRUE], NullNode)

parse_type_annotation(p0) ==
    LET token == current_token(p0) IN
    IF token = NullToken THEN NoAnnotation(p0)
    ELSE IF match_token(p0, "TOK_IDENTIFIER")
    THEN LET name == [type |-> "AST_NAME", id |-> token.value, ctx |-> "CTX_LOAD"]
             p1 == advance_token(p0)
         IN  IF ~match_token(p1, "TOK_LBRACKET") THEN Ret(p1, name)
             ELSE
             LET p2 == advance_token(p1)
                 first == current_token(p2)
                 p3 == advance_token(p2)
                 p4 == advance_token(p3)
                 slice ==
                     IF first # NullToken /\ first.type = "TOK_IDENTIFIER"
                     THEN Ret(IF match_token(p3, "TOK_COMMA")
                              THEN IF match_token(p4, "TOK_NUMBER")
                                   THEN advance_token(p4) ELSE p4
                              ELSE p3,
                              [type |-> "AST_NAME", id |-> first.value, ctx |-> "CTX_LOAD"])
                     ELSE Call("parse_expression", p2)
             IN  IF slice.node = NullNode THEN NoAnnotation(slice.p)
                 ELSE IF ~match_token(slice.p, "TOK_RBRACKET") THEN NoAnnotation(slice.p)
                 ELSE Ret(advance_token(slice.p),
                          [type |-> "AST_SUBSCRIPT", value |-> name, slice |-> slice.node,
                           ctx |-> "CTX_LOAD"])
    ELSE IF match_token(p0, "TOK_STRING")
    THEN Ret(advance_token(p0),
             [type |-> "AST_CONSTANT",
              value |-> [type |-> "CONST_STRING", str_val |-> token.value]])
    ELSE NoAnnotation(p0)

\* The call of a parse function of one parameter by its name.
Call(function, p) ==
    CASE function = "parse_statement" -> parse_statement(p)
      [] function = "parse_function_def" -> parse_function_def(p)
      [] function = "parse_class_def" -> parse_class_def(p)
      [] function = "parse_if_statement" -> parse_if_statement(p)
      [] function = "parse_while_statement" -> parse_while_statement(p)
      [] function = "parse_for_statement" -> parse_for_statement(p)
      [] function = "parse_return_statement" -> parse_return_statement(p)
      [] function = "parse_assign_statement" -> parse_assign_statement(p)
      [] function = "parse_expression_statement" -> parse_expression_statement(p)
      [] function = "parse_expression" -> parse_expression(p)
      [] function = "parse_or_expression" -> parse_or_expression(p)
      [] function = "parse_and_expression" -> parse_and_expression(p)
      [] function = "parse_not_expression" -> parse_not_expression(p)
      [] function = "parse_comparison" -> parse_comparison(p)
      [] function = "parse_arithmetic_expression" -> parse_arithmetic_expression(p)
      [] function = "parse_term" -> parse_term(p)
      [] function = "parse_factor" -> parse_factor(p)
      [] function = "parse_primary" -> parse_primary(p)
      [] function = "parse_arguments" -> parse_arguments(p)
      [] function = "parse_statement_list" -> parse_statement_list(p)
      [] function = "parse_type_annotation" -> parse_type_annotation(p)

-----------------------------------------------------------------------------
(* parser_parse stepped one top-level statement at a time, over the token     *)
(* streams lexer_tokenize returns for sample programs with one character      *)
(* inserted anywhere                                                          *)

\*   def f(a: int) -> int:
\*       return a + 1
Source_function ==
    <<"d", "e", "f", " ", "f", "(", "a", ":", " ", "i", "n", "t", ")", " ", "-", ">", " ",
      "i", "n", "t", ":", "\n", " ", " ", " ", " ", "r", "e", "t", "u", "r", "n", " ", "a",
      " ", "+", " ", "1", "\n">>

\*   def main():
\*       x: int = 2
\*   print(x)
Source_main ==
    <<"d", "e", "f", " ", "m", "a", "i", "n", "(", ")", ":", "\n", " ", " ", " ", " ",
      "x", ":", " ", "i", "n", "t", " ", "=", " ", "2", "\n", "p", "r", "i", "n", "t",
      "(", "x", ")", "\n">>

\*   if x < 3:
\*       x = 1
\*   else:
\*       pass
Source_if ==
    <<"i", "f", " ", "x", " ", "<", " ", "3", ":", "\n", " ", " ", " ", " ", "x", " ",
      "=", " ", "1", "\n", "e", "l", "s", "e", ":", "\n", " ", " ", " ", " ", "p", "a",
      "s", "s", "\n">>

\*   class C(E):
\*       a = 1
\*   while not a or b:
\*       if c:
\*           break
Source_class_while ==
    <<"c", "l", "a", "s", "s", " ", "C", "(", "E", ")", ":", "\n", " ", " ", " ", " ",
      "a", " ", "=", " ", "1", "\n", "w", "h", "i", "l", "e", " ", "n", "o", "t", " ",
      "a", " ", "o", "r", " ", "b", ":", "\n", " ", " ", " ", " ", "i", "f", " ", "c",
      ":", "\n", " ", " ", " ", " ", " ", " ", " ", " ", "b", "r", "e", "a", "k", "\n">>

\*   for i in r:
\*       continue
\*   p: ptr[int] = s.t[0]
Source_for ==
    <<"f", "o", "r", " ", "i", " ", "i", "n", " ", "r", ":", "\n", " ", " ", " ", " ",
      "c", "o", "n", "t", "i", "n", "u", "e", "\n", "p", ":", " ", "p", "t", "r", "[",
      "i", "n", "t", "]", " ", "=", " ", "s", ".", "t", "[", "0", "]", "\n">>

ParseBases == {Source_function, Source_main, Source_if, Source_class_while, Source_for}

\* An inserted '!' lexes as an ERROR token ("Unexpected character") unless it
\* lands before '=', in a string or in a comment; an inserted blank at the start
\* of a line changes its indentation.
InsertedChars == {"!", " "}

InsertAt(s, i, c) == SubSeq(s, 1, i) \o <<c>> \o SubSeq(s, i + 1, Len(s))

\* The comparison operators as they are written.
CompareOperators == {<<"=", "=">>, <<"!", "=">>, <<"<">>, <<"<", "=">>, <<">">>, <<">", "=">>}

\* The lines a op1 b op2 c.
ChainSources ==
    {<<"a", " ">> \o op1 \o <<" ", "b", " ">> \o op2 \o <<" ", "c", "\n">> :
         op1 \in CompareOperators, op2 \in CompareOperators}

\* Lines where parse_type_annotation returns NULL and the caller finds the
\* token it looks for next: a declaration without a type, with and without a
\* value, a return type and a parameter type left out, a bracket not closed.
Source_declare_no_type == <<"x", ":", " ", "=", " ", "2", "\n">>

Source_declare_number_type == <<"x", ":", " ", "5", "\n">>

Source_no_return_type == <<"d", "e", "f", " ", "f", "(", ")", " ", "-", ">", " ", ":", "\n", " ", " ", " ", " ", "p", "a", "s", "s", "\n">>

Source_no_parameter_type == <<"d", "e", "f", " ", "f", "(", "a", ":", " ", ")", ":", "\n", " ", " ", " ", " ", "p", "a", "s", "s", "\n">>

Source_open_bracket == <<"p", ":", " ", "p", "t", "r", "[", "i", "n", "t", " ", "=", " ", "2", "\n">>

AnnotationSources ==
    {Source_declare_no_type, Source_declare_number_type, Source_no_return_type,
     Source_no_parameter_type, Source_open_bracket}

\* The expression a statement begins with, one for each kind of first token:
\* an identifier, a literal, '(' and a unary operator.
StatementHeads == {<<"x">>, <<"1">>, <<"(", "x", ")">>, <<"-", "x">>}

\* What follows the head: a type, a type and a value, a value, nothing.
Tail_type == <<":", " ", "T">>

Tail_type_value == <<":", " ", "T", " ", "=", " ", "2">>

Tail_value == <<" ", "=", " ", "2">>

StatementTails == {Tail_type, Tail_type_value, Tail_value, <<>>}

LedSource(head, tail) == head \o tail \o <<"\n">>

LedSources == {LedSource(head, tail) : head \in StatementHeads, tail \in StatementTails}

ParseSources ==
    ParseBases
    \cup UNION {{InsertAt(s, i, c) : i \in 0..Len(s), c \in InsertedChars} : s \in ParseBases}
    \cup ChainSources \cup AnnotationSources \cup LedSources

\* The fields of the Parser object (parser.h).
ParserObject(p) ==
    [tokens |-> p.tokens, current |-> p.current, has_error |-> p.has_error,
     error_message |-> p.error_message, raised |-> p.raised,
     annotation_failed |-> p.annotation_failed, stalled |-> p.stalled]

\* main.c:141-159: the tokens of lexer_tokenize handed to parser_new.
ParseInit ==
    \E source \in ParseSources :
        parser = parser_new(lexer_tokenize(lexer_new(source)).tokens)
                 @@ [pc |-> "entry", body |-> <<>>, ast |-> NullNode]

\* parser_parse up to its loop (parser.c:78-80).
ParserParseEnter ==
    /\ parser.pc = "entry"
    /\ parser' = skip_newlines(ParserObject(parser))
                 @@ [pc |-> "loop", body |-> <<>>, ast |-> NullNode]
    /\ UNCHANGED <<tc, lexer, sem, drv, cg>>

\* The loop body of parser_parse without its test of has_error.
parser_parse_iteration_no_stop(stmt, body) ==
    IF stmt.p.stalled
    THEN stmt.p @@ [pc |-> "diverged", body |-> body, ast |-> NullNode]
    ELSE skip_newlines(stmt.p) @@ [pc |-> "loop", body |-> node_array_push(body, stmt.node),
                                   ast |-> NullNode]

\* The loop body of parser_parse after its call of parse_statement
\* (parser.c:84-93): the statement is stored, and an error ends the parse.  A
\* statement whose parse does not end leaves parser_parse without end.
parser_parse_iteration(stmt, body) ==
    IF stmt.p.stalled
    THEN stmt.p @@ [pc |-> "diverged", body |-> body, ast |-> NullNode]
    ELSE IF stmt.p.has_error
    THEN stmt.p @@ [pc |-> "returned", body |-> node_array_push(body, stmt.node),
                    ast |-> NullNode]
    ELSE skip_newlines(stmt.p) @@ [pc |-> "loop", body |-> node_array_push(body, stmt.node),
                                   ast |-> NullNode]

\* One iteration of the loop of parser_parse (parser.c:82-94).
ParserParseIteration ==
    /\ parser.pc = "loop"
    /\ ~at_end(ParserObject(parser))
    /\ parser' = parser_parse_iteration(Call("parse_statement", ParserObject(parser)),
                                         parser.body)
    /\ UNCHANGED <<tc, lexer, sem, drv, cg>>

\* The loop is left at the end of the tokens: the Module is returned (parser.c:96).
ParserParseReturn ==
    /\ parser.pc = "loop"
    /\ at_end(ParserObject(parser))
    /\ parser' = [parser EXCEPT !.pc = "returned",
                                !.ast = [type |-> "AST_MODULE", body |-> parser.body]]
    /\ UNCHANGED <<tc, lexer, sem, drv, cg>>

SpecParseInit ==
    /\ ParseInit
    /\ tc = TcIdle
    /\ lexer = LexerIdle
    /\ sem = SemIdle
    /\ drv = DrvIdle
    /\ cg = CgIdle

SpecParseNext == ParserParseEnter \/ ParserParseIteration \/ ParserParseReturn

SpecParse == SpecParseInit /\ [][SpecParseNext]_vars

\* parser_parse run to its return: the Parser it leaves and the node it returns.
RECURSIVE parser_parse_loop(_)
parser_parse_loop(it) ==
    IF it.pc = "returned" THEN Ret(ParserObject(it), NullNode)
    ELSE IF ~at_end(ParserObject(it))
    THEN parser_parse_loop(
             parser_parse_iteration(Call("parse_statement", ParserObject(it)), it.body))
    ELSE Ret(ParserObject(it), [type |-> "AST_MODULE", body |-> it.body])

parser_parse(p) ==
    parser_parse_loop(skip_newlines(p) @@ [pc |-> "loop", body |-> <<>>, ast |-> NullNode])

\* The tokens before position i (1-based) open more blocks than they close.
InsideBlock(tokens, i) ==
    CountTokens(SubSeq(tokens, 1, i - 1), "TOK_INDENT")
        > CountTokens(SubSeq(tokens, 1, i - 1), "TOK_DEDENT")

\* C3: when the token stream handed to the parser holds an ERROR token,
\* parser_parse returns NULL and has_error is set.
C3_ErrorTokenFailsParse ==
    (parser.pc = "returned" /\ CountTokens(parser.tokens, "TOK_ERROR") > 0) =>
        (parser.ast = NullNode /\ parser.has_error)

\* parser_parse has returned on a stream whose ERROR token lies inside an
\* indented block, after a first top-level statement was parsed.
C3_Witness ==
    /\ parser.pc = "returned"
    /\ Len(parser.body) >= 1
    /\ \E i \in 1..Len(parser.tokens) :
           parser.tokens[i].type = "TOK_ERROR" /\ InsideBlock(parser.tokens, i)
    /\ parser.ast = NullNode
    /\ parser.has_error

\* The token types of the comparison operators.
CompareTokens == {"TOK_EQ", "TOK_NE", "TOK_LT", "TOK_LE", "TOK_GT", "TOK_GE"}

\* The tokens are those of a line a op1 b op2 c: three identifiers with a
\* comparison operator between each two.
IsComparisonChain(tokens) ==
    /\ Len(tokens) = 7
    /\ \A k \in {1, 3, 5} : tokens[k].type = "TOK_IDENTIFIER"
    /\ \A k \in {2, 4} : tokens[k].type \in CompareTokens
    /\ tokens[6].type = "TOK_NEWLINE"
    /\ tokens[7].type = "TOK_EOF"

NameNode(token) == [type |-> "AST_NAME", id |-> token.value, ctx |-> "CTX_LOAD"]

\* C20: a line a op1 b op2 c parses, and its expression is one Compare node
\* with left operand a, operators [op1, op2] and comparators [b, c].
C20_ChainIsOneCompare ==
    (parser.pc = "returned" /\ IsComparisonChain(parser.tokens)) =>
        /\ parser.ast # NullNode
        /\ ~parser.has_error
        /\ Len(parser.ast.body) = 1
        /\ parser.ast.body[1].type = "AST_EXPR_STMT"
        /\ parser.ast.body[1].value.type = "AST_COMPARE"
        /\ parser.ast.body[1].value.left = NameNode(parser.tokens[1])
        /\ parser.ast.body[1].value.ops
               = <<compare_op(parser.tokens[2].type), compare_op(parser.tokens[4].type)>>
        /\ parser.ast.body[1].value.comparators
               = <<NameNode(parser.tokens[3]), NameNode(parser.tokens[5])>>

\* C14: when parser_parse has failed, the message in the error slot of the
\* Parser, which the driver prints, is the one of the first call of
\* parser_error: no later call has replaced it.
C14_MessageIsFirstError ==
    (parser.pc = "returned" /\ parser.has_error) =>
        /\ parser.raised # <<>>
        /\ parser.error_message = parser.raised[1]

\* C21: when parse_type_annotation has returned NULL at an annotation (after
\* ':' in a declaration or a parameter, after '->' in a function header), the
\* parse has failed: has_error is set and parser_parse has returned NULL.
C21_AnnotationFailureIsError ==
    (parser.pc = "returned" /\ parser.annotation_failed) =>
        (parser.has_error /\ parser.ast = NullNode)

\* The tokens lexer_tokenize returns for a text.
Tokens(text) == lexer_tokenize(lexer_new(text)).tokens

\* The node parse_expression returns for a text.
ParseExpression(text) == Call("parse_expression", parser_new(Tokens(text))).node

\* The statement the head of a line and what follows it stand for: AnnAssign
\* for a type, with the value when there is one, Assign with the head as its
\* single target for a value, ExprStmt for the head alone.
LedStatement(head, tail) ==
    CASE tail = Tail_type ->
             [type |-> "AST_ANN_ASSIGN", target |-> ParseExpression(head),
              annotation |-> ParseExpression(<<"T">>), value |-> NullNode]
      [] tail = Tail_type_value ->
             [type |-> "AST_ANN_ASSIGN", target |-> ParseExpression(head),
              annotation |-> ParseExpression(<<"T">>), value |-> ParseExpression(<<"2">>)]
      [] tail = Tail_value ->
             [type |-> "AST_ASSIGN", targets |-> <<ParseExpression(head)>>,
              value |-> ParseExpression(<<"2">>)]
      [] OTHER -> [type |-> "AST_EXPR_STMT", value |-> ParseExpression(head)]

\* C22: a line that begins with an expression, whatever its first token,
\* parses to the one statement LedStatement gives for it.
C22_LedStatementKinds ==
    parser.pc = "returned" =>
        \A head \in StatementHeads, tail \in StatementTails :
            parser.tokens = Tokens(LedSource(head, tail)) =>
                /\ ~parser.has_error
                /\ parser.ast = [type |-> "AST_MODULE", body |-> <<LedStatement(head, tail)>>]

\* C27: parser_parse terminates.  An iteration of the top-level statement loop
\* consumes a token or sets has_error, so that the tokens left, which are
\* finitely many, bound the iterations; the loop is left once has_error is set;
\* and no iteration of the block loop or of the postfix loop is without
\* Progress, which is what stalled and "diverged" record.
C27_ParserParseTerminates ==
    /\ [][(parser.pc = "loop" /\ ~at_end(ParserObject(parser))) =>
             /\ Progress(parser, parser')
             /\ parser'.current <= Len(parser'.tokens)
             /\ parser'.pc = (IF parser'.has_error THEN "returned" ELSE "loop")]_vars
    /\ [](parser.pc = "loop" => ~parser.has_error)
    /\ [](parser.pc \in {"entry", "loop", "returned"} => ~parser.stalled)

\* parser_parse has returned NULL after more than one iteration of its loop:
\* a function with a block came first, the postfix loop has met a call that
\* is not closed, and tokens are left.
C27_Witness ==
    /\ parser.pc = "returned"
    /\ parser.has_error
    /\ Len(parser.body) >= 1
    /\ parser.body[1].type = "AST_FUNCTION_DEF"
    /\ parser.error_message = "Expected ')' after arguments"
    /\ parser.current < Len(parser.tokens)

-----------------------------------------------------------------------------
(* semantic.c: symbols, scopes and the analyzer.  The SymbolTable is the       *)
(* sequence of its scopes from the global scope (first) to the current scope  *)
(* (last); a Scope is the sequence of its symbols in insertion order.          *)

\* A NULL Symbol pointer, and a NULL StringArray pointer.
NullSymbol == [type |-> "NULL"]

NullArray == [type |-> "NULL"]

string_array_new == [items |-> <<>>]

string_array_push(arr, str) == [arr EXCEPT !.items = Append(@, str)]

symbol_new(name, type, value_type) ==
    [name |-> name, type |-> type, value_type |-> value_type,
     param_types |-> NullArray, return_type |-> NULL,
     fields |-> <<>>, methods |-> <<>>, enum_members |-> <<>>]

symbol_add_field(symbol, field_name, field_type) ==
    [symbol EXCEPT !.fields = Append(@, [name |-> field_name, type |-> field_type])]

symbol_add_method(symbol, method_name, param_types, return_type) ==
    [symbol EXCEPT !.methods = Append(@, [name |-> method_name, param_types |-> param_types,
                                          return_type |-> return_type])]

symbol_add_enum_member(symbol, member_name, value) ==
    [symbol EXCEPT !.enum_members = Append(@, [name |-> member_name, value |-> value])]

\* The first symbol of the scope with the name, or NULL.
scope_lookup(scope, name) ==
    IF \E i \in 1..Len(scope) : scope[i].name = name
    THEN scope[CHOOSE i \in 1..Len(scope) :
                   /\ scope[i].name = name
                   /\ \A k \in 1..(i - 1) : scope[k].name # name]
    ELSE NullSymbol

symbol_table_new == << <<>> >>

symbol_table_push_scope(table) == Append(table, <<>>)

\* The global scope is never popped.
symbol_table_pop_scope(table) ==
    IF Len(table) = 1 THEN table ELSE SubSeq(table, 1, Len(table) - 1)

symbol_table_insert(table, symbol) == [table EXCEPT ![Len(table)] = Append(@, symbol)]

\* The lookup along the parent chain, from the current scope to the global one.
RECURSIVE symbol_table_lookup(_, _)
symbol_table_lookup(table, name) ==
    IF table = <<>> THEN NullSymbol
    ELSE IF scope_lookup(table[Len(table)], name) # NullSymbol
    THEN scope_lookup(table[Len(table)], name)
    ELSE symbol_table_lookup(SubSeq(table, 1, Len(table) - 1), name)

symbol_table_lookup_current_scope(table, name) == scope_lookup(table[Len(table)], name)

semantic_analyzer_new(current_file) ==
    [symbol_table |-> symbol_table_new, current_function_return_type |-> NULL,
     loop_depth |-> 0, current_file |-> current_file,
     has_error |-> FALSE, error_message |-> NoMessage]

semantic_error(analyzer, message) ==
    [analyzer EXCEPT !.has_error = TRUE, !.error_message = message]

\* A get_type_name that takes the name before the bracket for the type name.
get_type_name_of_subscript(annotation) ==
    IF annotation = NullNode THEN NULL
    ELSE IF annotation.type = "AST_NAME" THEN annotation.id
    ELSE IF annotation.type = "AST_CONSTANT" /\ annotation.value.type = "CONST_STRING"
    THEN annotation.value.str_val
    ELSE IF annotation.type = "AST_SUBSCRIPT" /\ annotation.value.type = "AST_NAME"
    THEN annotation.value.id
    ELSE NULL

get_type_name(annotation) ==
    IF annotation = NullNode THEN NULL
    ELSE IF annotation.type = "AST_NAME" THEN annotation.id
    ELSE IF annotation.type = "AST_CONSTANT" /\ annotation.value.type = "CONST_STRING"
    THEN annotation.value.str_val
    ELSE NULL

\* What an analyze function of a statement returns: the analyzer it leaves and
\* its bool; for an expression also the string left in *result_type.
Done(analyzer, ok) == [an |-> analyzer, ok |-> ok]

Typed(analyzer, ok, result_type) == [an |-> analyzer, ok |-> ok, type |-> result_type]

RECURSIVE analyze_ast(_, _), analyze_expression(_, _), analyze_function_def(_, _),
          analyze_module(_, _), analyze_call_arguments(_, _, _, _),
          analyze_compare_comparators(_, _, _, _), analyze_function_def_body(_, _, _),
          analyze_module_first_pass(_, _, _), analyze_module_second_pass(_, _, _)

analyze_name(analyzer, node) ==
    LET symbol == symbol_table_lookup(analyzer.symbol_table, node.id)
    IN  IF symbol = NullSymbol
        THEN Typed(semantic_error(analyzer, "Variable not declared"), FALSE, NULL)
        ELSE Typed(analyzer, TRUE, symbol.value_type)

analyze_constant(analyzer, node) ==
    Typed(analyzer, TRUE,
          CASE node.value.type = "CONST_INT" -> S_int
            [] node.value.type = "CONST_FLOAT" -> S_float
            [] node.value.type = "CONST_STRING" -> S_str
            [] node.value.type = "CONST_BOOL" -> S_bool
            [] node.value.type = "CONST_NONE" -> S_None
            [] OTHER -> NULL)

\* The body of the argument loop of analyze_call after its call of
\* analyze_expression (semantic.c:993-1006).
analyze_call_argument(arg, args, func_symbol, i) ==
    IF ~arg.ok THEN Done(arg.an, FALSE)
    ELSE IF /\ func_symbol.param_types # NullArray
            /\ i <= Len(func_symbol.param_types.items)
            /\ arg.type # NULL
            /\ ~types_compatible(func_symbol.param_types.items[i], arg.type)
    THEN Done(semantic_error(arg.an, "Function argument type mismatch"), FALSE)
    ELSE analyze_call_arguments(arg.an, args, func_symbol, i + 1)

\* The argument loop of analyze_call (semantic.c:991-1007), from argument i on.
analyze_call_arguments(analyzer, args, func_symbol, i) ==
    IF i > Len(args) THEN Done(analyzer, TRUE)
    ELSE analyze_call_argument(analyze_expression(analyzer, args[i]), args, func_symbol, i)

analyze_call(analyzer, node) ==
    IF node.func.type # "AST_NAME"
    THEN Typed(semantic_error(analyzer, "Unsupported function call type"), FALSE, NULL)
    ELSE
    LET func_name == node.func.id IN
    IF func_name = S_print
    THEN IF Len(node.args) # 1
         THEN Typed(semantic_error(analyzer, "print() expects exactly one argument"),
                    FALSE, NULL)
         ELSE LET arg == analyze_expression(analyzer, node.args[1])
              IN  Typed(arg.an, arg.ok, NULL)
    ELSE IF func_name = S_range
    THEN IF Len(node.args) # 1
         THEN Typed(semantic_error(analyzer, "range() expects exactly one argument"),
                    FALSE, NULL)
         ELSE LET arg == analyze_expression(analyzer, node.args[1])
              IN  IF ~arg.ok THEN Typed(arg.an, FALSE, NULL)
                  ELSE IF arg.type # NULL /\ arg.type # S_int
                  THEN Typed(semantic_error(arg.an, "range() expects integer argument"),
                             FALSE, NULL)
                  ELSE Typed(arg.an, TRUE, S_range_object)
    ELSE
    LET func_symbol == symbol_table_lookup(analyzer.symbol_table, func_name) IN
    IF func_symbol = NullSymbol \/ func_symbol.type # "SYM_FUNCTION"
    THEN Typed(semantic_error(analyzer, "Function not defined"), FALSE, NULL)
    ELSE
    LET expected_args == IF func_symbol.param_types # NullArray
                         THEN Len(func_symbol.param_types.items) ELSE 0
    IN
    IF Len(node.args) # expected_args
    THEN Typed(semantic_error(analyzer, "Function argument count mismatch"), FALSE, NULL)
    ELSE LET args == analyze_call_arguments(analyzer, node.args, func_symbol, 1)
         IN  IF ~args.ok THEN Typed(args.an, FALSE, NULL)
             ELSE Typed(args.an, TRUE, func_symbol.return_type)

analyze_binop(analyzer, node) ==
    LET left == analyze_expression(analyzer, node.left) IN
    IF ~left.ok THEN Typed(left.an, FALSE, NULL)
    ELSE
    LET right == analyze_expression(left.an, node.right) IN
    IF ~right.ok THEN Typed(right.an, FALSE, NULL)
    ELSE IF left.type = S_float \/ right.type = S_float
    THEN Typed(right.an, TRUE, S_float)
    ELSE Typed(right.an, TRUE, S_int)

\* The field loop of analyze_attribute (semantic.c:1072-1080): the type of
\* the first field with the name, or NULL.
field_type(struct_symbol, field_name) ==
    IF \E i \in 1..Len(struct_symbol.fields) : struct_symbol.fields[i].name = field_name
    THEN struct_symbol.fields[
             CHOOSE i \in 1..Len(struct_symbol.fields) :
                 /\ struct_symbol.fields[i].name = field_name
                 /\ \A k \in 1..(i - 1) : struct_symbol.fields[k].name # field_name].type
    ELSE NULL

analyze_attribute(analyzer, node) ==
    LET obj == analyze_expression(analyzer, node.value) IN
    IF ~obj.ok THEN Typed(obj.an, FALSE, NULL)
    ELSE IF obj.type = NULL
    THEN Typed(semantic_error(obj.an, "Cannot access attribute on unknown type"),
               FALSE, NULL)
    ELSE
    LET struct_symbol == symbol_table_lookup(obj.an.symbol_table, obj.type) IN
    IF struct_symbol = NullSymbol \/ struct_symbol.type # "SYM_STRUCT"
    THEN Typed(semantic_error(obj.an, "Cannot access attribute on non-struct type"),
               FALSE, NULL)
    ELSE IF field_type(struct_symbol, node.attr) # NULL
    THEN Typed(obj.an, TRUE, field_type(struct_symbol, node.attr))
    ELSE Typed(semantic_error(obj.an, "Struct field not found"), FALSE, NULL)

\* The body of the comparator loop of analyze_compare after its call of
\* analyze_expression (semantic.c:1150-1169).
analyze_compare_comparator(right, comparators, left_type, i) ==
    IF ~right.ok THEN Done(right.an, FALSE)
    ELSE IF /\ left_type # NULL
            /\ right.type # NULL
            /\ ~types_compatible(left_type, right.type)
            /\ ~types_compatible(right.type, left_type)
            /\ ~(left_type \in {S_int, S_float} /\ right.type \in {S_int, S_float})
    THEN Done(semantic_error(right.an, "Cannot compare incompatible types"), FALSE)
    ELSE analyze_compare_comparators(right.an, comparators, left_type, i + 1)

\* The comparator loop of analyze_compare (semantic.c:1148-1170).
analyze_compare_comparators(analyzer, comparators, left_type, i) ==
    IF i > Len(comparators) THEN Done(analyzer, TRUE)
    ELSE analyze_compare_comparator(analyze_expression(analyzer, comparators[i]),
                                    comparators, left_type, i)

analyze_compare(analyzer, node) ==
    LET left == analyze_expression(analyzer, node.left) IN
    IF ~left.ok THEN Typed(left.an, FALSE, NULL)
    ELSE LET rights == analyze_compare_comparators(left.an, node.comparators, left.type, 1)
         IN  IF ~rights.ok THEN Typed(rights.an, FALSE, NULL)
             ELSE Typed(rights.an, TRUE, S_bool)

\* The functions that return true without looking at the node, and without
\* storing a result type.
analyze_unaryop(analyzer, node) == Typed(analyzer, TRUE, NULL)

analyze_boolop(analyzer, node) == Typed(analyzer, TRUE, NULL)

analyze_subscript(analyzer, node) == Typed(analyzer, TRUE, NULL)

analyze_if(analyzer, node) == Done(analyzer, TRUE)

analyze_while(analyzer, node) == Done(analyzer, TRUE)

analyze_for(analyzer, node) == Done(analyzer, TRUE)

analyze_return(analyzer, node) == Done(analyzer, TRUE)

analyze_expression(analyzer, node) ==
    IF node = NullNode THEN Typed(analyzer, FALSE, NULL)
    ELSE CASE node.type = "AST_NAME" -> analyze_name(analyzer, node)
           [] node.type = "AST_CONSTANT" -> analyze_constant(analyzer, node)
           [] node.type = "AST_BINOP" -> analyze_binop(analyzer, node)
           [] node.type = "AST_UNARYOP" -> analyze_unaryop(analyzer, node)
           [] node.type = "AST_COMPARE" -> analyze_compare(analyzer, node)
           [] node.type = "AST_BOOLOP" -> analyze_boolop(analyzer, node)
           [] node.type = "AST_CALL" -> analyze_call(analyzer, node)
           [] node.type = "AST_ATTRIBUTE" -> analyze_attribute(analyzer, node)
           [] node.type = "AST_SUBSCRIPT" -> analyze_subscript(analyzer, node)
           [] OTHER -> Typed(semantic_error(analyzer, "Unsupported expression type"),
                             FALSE, NULL)

\* An expression analysed for its bool only: the result type is freed.
Untyped(expr) == Done(expr.an, expr.ok)

\* analyze_ann_assign with the type check left out.
analyze_ann_assign_value_unchecked(value, var_symbol) ==
    IF ~value.ok THEN Done(value.an, FALSE)
    ELSE Done([value.an EXCEPT !.symbol_table = symbol_table_insert(@, var_symbol)], TRUE)

\* analyze_ann_assign after its call of analyze_expression on the value
\* (semantic.c:837-858).
analyze_ann_assign_value(value, var_symbol) ==
    IF ~value.ok THEN Done(value.an, FALSE)
    ELSE IF ~types_compatible(var_symbol.value_type, value.type)
    THEN Done(semantic_error(value.an, "Type mismatch in assignment"), FALSE)
    ELSE Done([value.an EXCEPT !.symbol_table = symbol_table_insert(@, var_symbol)], TRUE)

analyze_ann_assign(analyzer, node) ==
    IF node.target.type # "AST_NAME"
    THEN Done(semantic_error(analyzer, "Invalid assignment target"), FALSE)
    ELSE
    LET var_name == node.target.id
        type_name == get_type_name(node.annotation)
    IN
    IF type_name = NULL
    THEN Done(semantic_error(analyzer, "Variable must have type annotation"), FALSE)
    ELSE IF symbol_table_lookup_current_scope(analyzer.symbol_table, var_name) # NullSymbol
    THEN Done(semantic_error(analyzer, "Variable already declared in this scope"), FALSE)
    ELSE IF node.value # NullNode
    THEN analyze_ann_assign_value(analyze_expression(analyzer, node.value),
                                  symbol_new(var_name, "SYM_VARIABLE", type_name))
    ELSE Done([analyzer EXCEPT !.symbol_table =
                   symbol_table_insert(@, symbol_new(var_name, "SYM_VARIABLE", type_name))],
              TRUE)

\* analyze_assign after its call of analyze_expression on the value
\* (semantic.c:1098-1131).
analyze_assign_target(value, node) ==
    IF ~value.ok THEN Done(value.an, FALSE)
    ELSE IF Len(node.targets) = 0 THEN Done(value.an, TRUE)
    ELSE
    LET target == node.targets[1] IN
    IF target.type = "AST_NAME"
    THEN LET symbol == symbol_table_lookup(value.an.symbol_table, target.id)
         IN  IF symbol = NullSymbol
             THEN Done(semantic_error(value.an, "Variable not declared"), FALSE)
             ELSE IF /\ symbol.value_type # NULL
                     /\ value.type # NULL
                     /\ ~types_compatible(symbol.value_type, value.type)
             THEN Done(semantic_error(value.an, "Type mismatch in assignment"), FALSE)
             ELSE Done(value.an, TRUE)
    ELSE IF target.type = "AST_SUBSCRIPT"
    THEN Untyped(analyze_expression(value.an, target))
    ELSE Done(value.an, TRUE)

analyze_assign(analyzer, node) ==
    analyze_assign_target(analyze_expression(analyzer, node.value), node)

\* The enum branch of analyze_class_def (semantic.c:645-684), from statement i on.
RECURSIVE analyze_enum_body(_, _, _, _)
analyze_enum_body(analyzer, class_symbol, body, i) ==
    IF i > Len(body) THEN [an |-> analyzer, ok |-> TRUE, symbol |-> class_symbol]
    ELSE
    LET stmt == body[i] IN
    IF stmt.type = "AST_ASSIGN"
    THEN IF Len(stmt.targets) # 1 \/ stmt.targets[1].type # "AST_NAME"
         THEN [an |-> semantic_error(analyzer, "Invalid enum member assignment"),
               ok |-> FALSE, symbol |-> NullSymbol]
         ELSE IF stmt.value.type # "AST_CONSTANT" \/ stmt.value.value.type # "CONST_INT"
         THEN [an |-> semantic_error(analyzer, "Enum member must have integer value"),
               ok |-> FALSE, symbol |-> NullSymbol]
         ELSE analyze_enum_body(analyzer,
                  symbol_add_enum_member(class_symbol, stmt.targets[1].id,
                                         stmt.value.value.int_val),
                  body, i + 1)
    ELSE IF stmt.type # "AST_PASS"
    THEN [an |-> semantic_error(analyzer, "Enum can only contain member assignments"),
          ok |-> FALSE, symbol |-> NullSymbol]
    ELSE analyze_enum_body(analyzer, class_symbol, body, i + 1)

\* The field loop of the struct branch (semantic.c:704-720), from statement i on.
RECURSIVE analyze_struct_fields(_, _, _, _)
analyze_struct_fields(analyzer, class_symbol, body, i) ==
    IF i > Len(body) THEN [an |-> analyzer, ok |-> TRUE, symbol |-> class_symbol]
    ELSE IF body[i].type = "AST_ANN_ASSIGN"
    THEN IF get_type_name(body[i].annotation) = NULL
         THEN [an |-> semantic_error(analyzer, "Field must have type annotation"),
               ok |-> FALSE, symbol |-> NullSymbol]
         ELSE analyze_struct_fields(analyzer,
                  symbol_add_field(class_symbol, body[i].target.id,
                                   get_type_name(body[i].annotation)),
                  body, i + 1)
    ELSE analyze_struct_fields(analyzer, class_symbol, body, i + 1)

\* The parameter types of a method, the first parameter (self) skipped and the
\* parameters without a type name left out (semantic.c:736-749).
RECURSIVE method_param_types(_, _)
method_param_types(args, j) ==
    IF j > Len(args) THEN <<>>
    ELSE (IF args[j].type = "AST_ARG" /\ get_type_name(args[j].annotation) # NULL
          THEN <<get_type_name(args[j].annotation)>> ELSE <<>>)
         \o method_param_types(args, j + 1)

\* The method loops of the struct and interface branches (semantic.c:723-754
\* and 762-793), from statement i on.
RECURSIVE analyze_class_methods(_, _, _)
analyze_class_methods(class_symbol, body, i) ==
    IF i > Len(body) THEN class_symbol
    ELSE IF body[i].type = "AST_FUNCTION_DEF"
    THEN analyze_class_methods(
             symbol_add_method(class_symbol, body[i].name,
                 [items |-> IF body[i].args # NullNode /\ body[i].args.type = "AST_ARGUMENTS"
                            THEN method_param_types(body[i].args.args, 2) ELSE <<>>],
                 IF body[i].returns # NullNode THEN get_type_name(body[i].returns)
                 ELSE NULL),
             body, i + 1)
    ELSE analyze_class_methods(class_symbol, body, i + 1)

\* Every method counted as one with an implementation.
method_has_implementation_always(stmt) == stmt.type = "AST_FUNCTION_DEF"

\* The test of analyze_class_def for a method with an implementation
\* (semantic.c:694-700): a body of more than one statement, or of one statement
\* that is not pass.
method_has_implementation(stmt) ==
    /\ stmt.type = "AST_FUNCTION_DEF"
    /\ \/ Len(stmt.body) > 1
       \/ Len(stmt.body) = 1 /\ stmt.body[1].type # "AST_PASS"

analyze_class_def(analyzer, node) ==
    LET class_name == node.name IN
    IF symbol_table_lookup_current_scope(analyzer.symbol_table, class_name) # NullSymbol
    THEN Done(semantic_error(analyzer, "Class already defined"), FALSE)
    ELSE
    LET is_enum == \E i \in 1..Len(node.bases) :
                       node.bases[i].type = "AST_NAME" /\ node.bases[i].id = S_Enum
        has_fields == \E i \in 1..Len(node.body) : node.body[i].type = "AST_ANN_ASSIGN"
        has_method_implementations ==
            \E i \in 1..Len(node.body) : method_has_implementation(node.body[i])
        registered ==
            IF is_enum
            THEN analyze_enum_body(analyzer, symbol_new(class_name, "SYM_ENUM", NULL),
                                   node.body, 1)
            ELSE IF has_fields \/ has_method_implementations
            THEN LET fields == analyze_struct_fields(analyzer,
                                   symbol_new(class_name, "SYM_STRUCT", NULL), node.body, 1)
                 IN  IF ~fields.ok THEN fields
                     ELSE [fields EXCEPT !.symbol = analyze_class_methods(@, node.body, 1)]
            ELSE [an |-> analyzer, ok |-> TRUE,
                  symbol |-> analyze_class_methods(
                                 symbol_new(class_name, "SYM_INTERFACE", NULL), node.body, 1)]
    IN  IF ~registered.ok THEN Done(registered.an, FALSE)
        ELSE Done([registered.an EXCEPT !.symbol_table =
                       symbol_table_insert(@, registered.symbol)], TRUE)

\* The parameter loop of analyze_function_def (semantic.c:579-597), from
\* parameter i on: each parameter becomes a variable of the new scope.
RECURSIVE register_parameters(_, _, _)
register_parameters(analyzer, args, i) ==
    IF i > Len(args) THEN Done(analyzer, TRUE)
    ELSE IF args[i].type # "AST_ARG" THEN register_parameters(analyzer, args, i + 1)
    ELSE IF get_type_name(args[i].annotation) = NULL
    THEN Done(semantic_error(analyzer, "Parameter must have type annotation"), FALSE)
    ELSE register_parameters(
             [analyzer EXCEPT !.symbol_table =
                  symbol_table_insert(@, symbol_new(args[i].arg, "SYM_VARIABLE",
                                                    get_type_name(args[i].annotation)))],
             args, i + 1)

\* analyze_function_def after a parameter without a type name
\* (semantic.c:587-590), and after the body (semantic.c:609-613): the scope
\* is popped and the return type of the enclosing function is restored.
analyze_function_def_exit_no_pop(analyzer, old_return_type) ==
    [analyzer EXCEPT !.current_function_return_type = old_return_type]

analyze_function_def_exit(analyzer, old_return_type) ==
    [analyzer EXCEPT !.symbol_table = symbol_table_pop_scope(@),
                     !.current_function_return_type = old_return_type]

\* analyze_function_def up to its body (semantic.c:562-598).
analyze_function_def_enter(analyzer, node) ==
    LET old_return_type == analyzer.current_function_return_type
        a1 == [analyzer EXCEPT
                   !.current_function_return_type =
                       IF node.returns # NullNode THEN get_type_name(node.returns) ELSE NULL,
                   !.symbol_table = symbol_table_push_scope(@)]
        params == IF node.args # NullNode /\ node.args.type = "AST_ARGUMENTS"
                  THEN register_parameters(a1, node.args.args, 1)
                  ELSE Done(a1, TRUE)
    IN  IF ~params.ok
        THEN Done(analyze_function_def_exit(params.an, old_return_type), FALSE)
        ELSE params

\* The body of the statement loop of analyze_function_def after its call of
\* analyze_ast (semantic.c:602-606).
analyze_function_def_statement(stmt, body, i) ==
    IF ~stmt.ok THEN Done(stmt.an, FALSE)
    ELSE analyze_function_def_body(stmt.an, body, i + 1)

\* The statement loop of analyze_function_def (semantic.c:600-607).
analyze_function_def_body(analyzer, body, i) ==
    IF i > Len(body) THEN Done(analyzer, TRUE)
    ELSE analyze_function_def_statement(analyze_ast(analyzer, body[i]), body, i)

\* analyze_function_def from its body to its return.
analyze_function_def_leave(success, old_return_type) ==
    Done(analyze_function_def_exit(success.an, old_return_type), success.ok)

\* analyze_function_def after its parameters were registered.
analyze_function_def_entered(entered, node, old_return_type) ==
    IF ~entered.ok THEN entered
    ELSE analyze_function_def_leave(analyze_function_def_body(entered.an, node.body, 1),
                                    old_return_type)

analyze_function_def(analyzer, node) ==
    analyze_function_def_entered(analyze_function_def_enter(analyzer, node), node,
                                 analyzer.current_function_return_type)

\* The parameter types of a function signature (semantic.c:490-508): NULL
\* stands for a parameter without a type name.
RECURSIVE signature_param_types(_, _, _)
signature_param_types(args, j, param_types) ==
    IF j > Len(args) THEN param_types
    ELSE IF args[j].type # "AST_ARG" THEN signature_param_types(args, j + 1, param_types)
    ELSE IF get_type_name(args[j].annotation) = NULL THEN NullArray
    ELSE signature_param_types(args, j + 1,
             string_array_push(param_types, get_type_name(args[j].annotation)))

\* The first pass registering only the function called main.
register_function_only_main(analyzer, item) ==
    IF item.name # S_main THEN Done(analyzer, TRUE)
    ELSE Done([analyzer EXCEPT !.symbol_table =
                   symbol_table_insert(@, [symbol_new(item.name, "SYM_FUNCTION", NULL)
                                               EXCEPT !.param_types = string_array_new])],
              TRUE)

\* The first pass of analyze_module on one function definition
\* (semantic.c:480-518): its signature is registered in the global scope.
register_function(analyzer, item) ==
    LET has_args == item.args # NullNode /\ item.args.type = "AST_ARGUMENTS"
        param_types == IF has_args
                       THEN signature_param_types(item.args.args, 1, string_array_new)
                       ELSE NullArray
        func_symbol == [symbol_new(item.name, "SYM_FUNCTION", NULL) EXCEPT
                            !.return_type = IF item.returns # NullNode
                                            THEN get_type_name(item.returns) ELSE NULL,
                            !.param_types = param_types]
    IN  IF has_args /\ param_types = NullArray
        THEN Done(semantic_error(analyzer, "Parameter must have type annotation"), FALSE)
        ELSE IF symbol_table_lookup_current_scope(analyzer.symbol_table, item.name)
                    # NullSymbol
        THEN Done(semantic_error(analyzer, "Function already defined"), FALSE)
        ELSE Done([analyzer EXCEPT !.symbol_table = symbol_table_insert(@, func_symbol)],
                  TRUE)

\* The body of the first loop of analyze_module (semantic.c:477-527).
analyze_module_first_pass_item(analyzer, item) ==
    IF item.type = "AST_FUNCTION_DEF" THEN register_function(analyzer, item)
    ELSE IF item.type = "AST_CLASS_DEF" THEN analyze_class_def(analyzer, item)
    ELSE Done(analyzer, TRUE)

\* strstr(current_file, "/modules/") or strstr(current_file, "_utils.pyr").
is_library_file(current_file) ==
    /\ current_file # NULL
    /\ \/ StrStr(current_file, <<"/", "m", "o", "d", "u", "l", "e", "s", "/">>)
       \/ StrStr(current_file, <<"_", "u", "t", "i", "l", "s", ".", "p", "y", "r">>)

\* The check for main between the passes (semantic.c:529-540).
analyze_module_main_check(analyzer) ==
    LET main_symbol == symbol_table_lookup(analyzer.symbol_table, S_main) IN
    IF (main_symbol = NullSymbol \/ main_symbol.type # "SYM_FUNCTION")
       /\ ~is_library_file(analyzer.current_file)
    THEN Done(semantic_error(analyzer, "main function not found"), FALSE)
    ELSE Done(analyzer, TRUE)

\* The second loop without its exception for class definitions.
analyze_module_second_pass_item_with_classes(analyzer, item) ==
    IF item.type = "AST_FUNCTION_DEF" THEN analyze_function_def(analyzer, item)
    ELSE analyze_ast(analyzer, item)

\* The body of the second loop of analyze_module (semantic.c:543-556).
analyze_module_second_pass_item(analyzer, item) ==
    IF item.type = "AST_FUNCTION_DEF" THEN analyze_function_def(analyzer, item)
    ELSE IF item.type # "AST_CLASS_DEF" THEN analyze_ast(analyzer, item)
    ELSE Done(analyzer, TRUE)

\* A loop of analyze_module after the call its body made.
analyze_module_first_pass_next(item, body, i) ==
    IF ~item.ok THEN item ELSE analyze_module_first_pass(item.an, body, i + 1)

analyze_module_first_pass(analyzer, body, i) ==
    IF i > Len(body) THEN Done(analyzer, TRUE)
    ELSE analyze_module_first_pass_next(analyze_module_first_pass_item(analyzer, body[i]),
                                        body, i)

analyze_module_second_pass_next(item, body, i) ==
    IF ~item.ok THEN item ELSE analyze_module_second_pass(item.an, body, i + 1)

analyze_module_second_pass(analyzer, body, i) ==
    IF i > Len(body) THEN Done(analyzer, TRUE)
    ELSE analyze_module_second_pass_next(analyze_module_second_pass_item(analyzer, body[i]),
                                         body, i)

\* analyze_module after its first pass, and after the check for main.
analyze_module_checked(checked, node) ==
    IF ~checked.ok THEN checked ELSE analyze_module_second_pass(checked.an, node.body, 1)

analyze_module_registered(registered, node) ==
    IF ~registered.ok THEN registered
    ELSE analyze_module_checked(analyze_module_main_check(registered.an), node)

analyze_module(analyzer, node) ==
    IF node = NullNode \/ node.type # "AST_MODULE" THEN Done(analyzer, FALSE)
    ELSE analyze_module_registered(analyze_module_first_pass(analyzer, node.body, 1), node)

analyze_ast(analyzer, node) ==
    IF node = NullNode THEN Done(analyzer, FALSE)
    ELSE CASE node.type = "AST_MODULE" -> analyze_module(analyzer, node)
           [] node.type = "AST_FUNCTION_DEF" -> analyze_function_def(analyzer, node)
           [] node.type = "AST_CLASS_DEF" -> analyze_class_def(analyzer, node)
           [] node.type = "AST_ASSIGN" -> analyze_assign(analyzer, node)
           [] node.type = "AST_ANN_ASSIGN" -> analyze_ann_assign(analyzer, node)
           [] node.type = "AST_IF" -> analyze_if(analyzer, node)
           [] node.type = "AST_WHILE" -> analyze_while(analyzer, node)
           [] node.type = "AST_FOR" -> analyze_for(analyzer, node)
           [] node.type = "AST_RETURN" -> analyze_return(analyzer, node)
           [] node.type = "AST_EXPR_STMT" ->
                  Untyped(analyze_expression(analyzer, node.value))
           [] node.type \in {"AST_BREAK", "AST_CONTINUE"} ->
                  IF analyzer.loop_depth = 0
                  THEN Done(semantic_error(analyzer, "break/continue outside loop"), FALSE)
                  ELSE Done(analyzer, TRUE)
           [] node.type = "AST_PASS" -> Done(analyzer, TRUE)
           [] OTHER -> Untyped(analyze_expression(analyzer, node))

-----------------------------------------------------------------------------
(* analyze_module stepped one module item and one body statement at a time,   *)
(* over modules assembled from the nodes the parser returns for the texts      *)
(* below: parse_statement gives a statement the same node wherever it stands,  *)
(* so each statement is parsed on its own and stored in the body of the       *)
(* function definition parsed from the header.                                 *)

\* The number of statements in the body of the assembled function.
MaxStatements == 2

\* The node parse_statement returns for a text.
ParseStatement(text) ==
    Call("parse_statement", parser_new(lexer_tokenize(lexer_new(text)).tokens)).node

\*   x: int = 1
Stmt_declare_x ==
    <<"x", ":", " ", "i", "n", "t", " ", "=", " ", "1", "\n">>

\*   x: str = 1
Stmt_declare_x_str ==
    <<"x", ":", " ", "s", "t", "r", " ", "=", " ", "1", "\n">>

\*   y: int = f(x)
Stmt_declare_y_call ==
    <<"y", ":", " ", "i", "n", "t", " ", "=", " ", "f", "(", "x", ")", "\n">>

\*   g()
Stmt_call_g ==
    <<"g", "(", ")", "\n">>

\*   g: int = 1
Stmt_declare_g ==
    <<"g", ":", " ", "i", "n", "t", " ", "=", " ", "1", "\n">>

\*   if True:
\*       q
Stmt_if_q ==
    <<"i", "f", " ", "T", "r", "u", "e", ":", "\n", " ", " ", " ", " ", "q", "\n">>

\*   break
Stmt_break ==
    <<"b", "r", "e", "a", "k", "\n">>

\*   if True:
\*       break
Stmt_if_break ==
    <<"i", "f", " ", "T", "r", "u", "e", ":", "\n", " ", " ", " ", " ", "b", "r", "e",
      "a", "k", "\n">>

\*   while True:
\*       break
Stmt_while_break ==
    <<"w", "h", "i", "l", "e", " ", "T", "r", "u", "e", ":", "\n", " ", " ", " ", " ",
      "b", "r", "e", "a", "k", "\n">>

\*   def main():
\*       pass
Header_main ==
    <<"d", "e", "f", " ", "m", "a", "i", "n", "(", ")", ":", "\n", " ", " ", " ", " ",
      "p", "a", "s", "s", "\n">>

\*   def main(x: int):
\*       pass
Header_main_x ==
    <<"d", "e", "f", " ", "m", "a", "i", "n", "(", "x", ":", " ", "i", "n", "t", ")",
      ":", "\n", " ", " ", " ", " ", "p", "a", "s", "s", "\n">>

\*   def run():
\*       pass
Header_run ==
    <<"d", "e", "f", " ", "r", "u", "n", "(", ")", ":", "\n", " ", " ", " ", " ", "p",
      "a", "s", "s", "\n">>

\*   def f(a: int) -> int:
\*       pass
Header_f ==
    <<"d", "e", "f", " ", "f", "(", "a", ":", " ", "i", "n", "t", ")", " ", "-", ">",
      " ", "i", "n", "t", ":", "\n", " ", " ", " ", " ", "p", "a", "s", "s", "\n">>

\*   def g():
\*       pass
Header_g ==
    <<"d", "e", "f", " ", "g", "(", ")", ":", "\n", " ", " ", " ", " ", "p", "a", "s",
      "s", "\n">>

\*   return a
Stmt_return_a ==
    <<"r", "e", "t", "u", "r", "n", " ", "a", "\n">>

\*   y: int = f(1)
Stmt_declare_y_f ==
    <<"y", ":", " ", "i", "n", "t", " ", "=", " ", "f", "(", "1", ")", "\n">>

\*   n: int = 1
Stmt_declare_n ==
    <<"n", ":", " ", "i", "n", "t", " ", "=", " ", "1", "\n">>

\*   class P:
\*       v: int
Text_class_P ==
    <<"c", "l", "a", "s", "s", " ", "P", ":", "\n", " ", " ", " ", " ", "v", ":", " ",
      "i", "n", "t", "\n">>

\*   def run(a: int, a: int):
\*       pass
Header_run_aa ==
    <<"d", "e", "f", " ", "r", "u", "n", "(", "a", ":", " ", "i", "n", "t", ",", " ",
      "a", ":", " ", "i", "n", "t", ")", ":", "\n", " ", " ", " ", " ", "p", "a", "s",
      "s", "\n">>

\*   def h(b):
\*       pass
Stmt_def_h ==
    <<"d", "e", "f", " ", "h", "(", "b", ")", ":", "\n", " ", " ", " ", " ", "p", "a",
      "s", "s", "\n">>

\* More texts: the classes E, F, S and T, to be given a body.
\*   class E(Enum):
\*       pass
Class_E == <<"c", "l", "a", "s", "s", " ", "E", "(", "E", "n", "u", "m", ")", ":", "\n", " ", " ", " ", " ", "p", "a", "s", "s", "\n">>

\*   class F(B, Enum):
\*       pass
Class_F == <<"c", "l", "a", "s", "s", " ", "F", "(", "B", ",", " ", "E", "n", "u", "m", ")", ":", "\n", " ", " ", " ", " ", "p", "a", "s", "s", "\n">>

\*   class S:
\*       pass
Class_S == <<"c", "l", "a", "s", "s", " ", "S", ":", "\n", " ", " ", " ", " ", "p", "a", "s", "s", "\n">>

\*   class T(B):
\*       pass
Class_T == <<"c", "l", "a", "s", "s", " ", "T", "(", "B", ")", ":", "\n", " ", " ", " ", " ", "p", "a", "s", "s", "\n">>

\*   A = 1
Item_member == <<"A", " ", "=", " ", "1", "\n">>

\*   v: int
Item_field == <<"v", ":", " ", "i", "n", "t", "\n">>

\*   pass
Item_pass == <<"p", "a", "s", "s", "\n">>

\*   def m(self):
\*       pass
Item_method == <<"d", "e", "f", " ", "m", "(", "s", "e", "l", "f", ")", ":", "\n", " ", " ", " ", " ", "p", "a", "s", "s", "\n">>

\*   def main(u: int):
\*       pass
\* and the function k with a parameter whose type is in bracket form, or a string
Header_main_u == <<"d", "e", "f", " ", "m", "a", "i", "n", "(", "u", ":", " ", "i", "n", "t", ")", ":", "\n", " ", " ", " ", " ", "p", "a", "s", "s", "\n">>

Header_k_ptr == <<"d", "e", "f", " ", "k", "(", "a", ":", " ", "p", "t", "r", "[", "i", "n", "t", "]", ")", ":", "\n", " ", " ", " ", " ", "p", "a", "s", "s", "\n">>

Header_k_array == <<"d", "e", "f", " ", "k", "(", "a", ":", " ", "a", "r", "r", "a", "y", "[", "i", "n", "t", ",", " ", "5", "]", ")", ":", "\n", " ", " ", " ", " ", "p", "a", "s", "s", "\n">>

Header_k_string == <<"d", "e", "f", " ", "k", "(", "a", ":", " ", "\"", "T", "\"", ")", ":", "\n", " ", " ", " ", " ", "p", "a", "s", "s", "\n">>

\*   p: ptr[int]
Stmt_declare_p_ptr == <<"p", ":", " ", "p", "t", "r", "[", "i", "n", "t", "]", "\n">>

\*   p: array[int, 5] = 1
Stmt_declare_p_array == <<"p", ":", " ", "a", "r", "r", "a", "y", "[", "i", "n", "t", ",", " ", "5", "]", " ", "=", " ", "1", "\n">>

\*   p: "T"
Stmt_declare_p_string == <<"p", ":", " ", "\"", "T", "\"", "\n">>

\* The declarations of u with a name, a string and a bracket form for its type.
Type_int == <<"u", ":", " ", "i", "n", "t", "\n">>

Type_str == <<"u", ":", " ", "s", "t", "r", "\n">>

Type_string == <<"u", ":", " ", "\"", "P", "\"", "\n">>

Type_ptr == <<"u", ":", " ", "p", "t", "r", "[", "i", "n", "t", "]", "\n">>

\* The expression statements with a value the analyzer gives no type: a
\* UnaryOp, a BoolOp, a Subscript, a call of print and a call of g, which has
\* no return type; and a call of print with a name that is not declared.
Value_unaryop == <<"-", "1", "\n">>

Value_boolop == <<"a", " ", "o", "r", " ", "b", "\n">>

Value_subscript == <<"s", "[", "0", "]", "\n">>

Value_print == <<"p", "r", "i", "n", "t", "(", "1", ")", "\n">>

Value_call_g == <<"g", "(", ")", "\n">>

Value_print_q == <<"p", "r", "i", "n", "t", "(", "q", ")", "\n">>

CaseTexts ==
    [Class_E |-> Class_E, Class_F |-> Class_F, Class_S |-> Class_S, Class_T |-> Class_T,
     Item_member |-> Item_member, Item_field |-> Item_field, Item_pass |-> Item_pass,
     Item_method |-> Item_method, Header_main_u |-> Header_main_u,
     Header_k_ptr |-> Header_k_ptr, Header_k_array |-> Header_k_array,
     Header_k_string |-> Header_k_string, Stmt_declare_p_ptr |-> Stmt_declare_p_ptr,
     Stmt_declare_p_array |-> Stmt_declare_p_array,
     Stmt_declare_p_string |-> Stmt_declare_p_string,
     Type_int |-> Type_int, Type_str |-> Type_str, Type_string |-> Type_string,
     Type_ptr |-> Type_ptr, Value_unaryop |-> Value_unaryop,
     Value_boolop |-> Value_boolop, Value_subscript |-> Value_subscript,
     Value_print |-> Value_print, Value_call_g |-> Value_call_g,
     Value_print_q |-> Value_print_q]

\* The texts by name, and the node parse_statement returns for each.
SemTexts ==
    [Stmt_declare_x |-> Stmt_declare_x, Stmt_declare_x_str |-> Stmt_declare_x_str,
     Stmt_declare_y_call |-> Stmt_declare_y_call, Stmt_call_g |-> Stmt_call_g,
     Stmt_declare_g |-> Stmt_declare_g, Stmt_if_q |-> Stmt_if_q,
     Stmt_break |-> Stmt_break, Stmt_if_break |-> Stmt_if_break,
     Stmt_while_break |-> Stmt_while_break, Header_main |-> Header_main,
     Header_main_x |-> Header_main_x, Header_run |-> Header_run, Header_f |-> Header_f,
     Header_g |-> Header_g, Stmt_return_a |-> Stmt_return_a,
     Stmt_declare_y_f |-> Stmt_declare_y_f, Stmt_declare_n |-> Stmt_declare_n,
     Text_class_P |-> Text_class_P, Header_run_aa |-> Header_run_aa,
     Stmt_def_h |-> Stmt_def_h]
    @@ CaseTexts

SemNodes == [name \in DOMAIN SemTexts |-> ParseStatement(SemTexts[name])]

\* The statements the body of the assembled function is made of, and its headers.
SemStatements ==
    {"Stmt_declare_x", "Stmt_declare_x_str", "Stmt_declare_y_call", "Stmt_call_g",
     "Stmt_declare_g", "Stmt_if_q", "Stmt_break", "Stmt_if_break", "Stmt_while_break"}

SemHeaders == {"Header_main", "Header_main_x", "Header_run", "Header_run_aa"}

\* The function definition of a header with the statements as its body.
FunctionDef(header, body) == [header EXCEPT !.body = body]

\* The module items before and after the assembled function: none; a function
\* f that calls g, defined after it, which calls f; a variable and a class; a
\* function g after it, with a nested function whose parameter has no type.
SemLayouts(nodes) ==
    <<[before |-> <<>>, after |-> <<>>],
      [before |-> <<FunctionDef(nodes.Header_f, <<nodes.Stmt_call_g, nodes.Stmt_return_a>>)>>,
       after |-> <<FunctionDef(nodes.Header_g, <<nodes.Stmt_declare_y_f>>)>>],
      [before |-> <<nodes.Stmt_declare_n, nodes.Text_class_P>>, after |-> <<>>],
      [before |-> <<>>,
       after |-> <<FunctionDef(nodes.Header_g, <<nodes.Stmt_declare_n, nodes.Stmt_def_h>>)>>]>>

File_program == <<"p", "r", "o", "g", ".", "p", "y", "r">>

File_library ==
    <<"l", "i", "b", "/", "m", "o", "d", "u", "l", "e", "s", "/", "m", ".", "p", "y", "r">>

SemFiles == {File_program, File_library}

\* The Module of a layout, a header and the statements chosen for the body.
SemModule(nodes, layout, header, body) ==
    [type |-> "AST_MODULE",
     body |-> layout.before
              \o <<FunctionDef(nodes[header], [k \in 1..Len(body) |-> nodes[body[k]]])>>
              \o layout.after]

-----------------------------------------------------------------------------
(* More modules for analyze_ast: a class of every shape before main, a         *)
(* declaration whose value has no type in main, annotations in bracket form    *)

\* The types T and the values E of the declarations u: T = E.
CaseTypes == {"Type_int", "Type_str", "Type_string", "Type_ptr"}

UntypedValues ==
    {"Value_unaryop", "Value_boolop", "Value_subscript", "Value_print", "Value_call_g",
     "Value_print_q"}

\* The declaration u: T = E that parse_assign_statement makes of the
\* annotation of u: T and the expression of the statement E (parser.c:465-476).
Declaration(type, value) == [type EXCEPT !.value = value.value]

\* The items of a class body: a member, a field, pass, and the method m with a
\* lone pass, with two of them, and with a declaration that has the wrong type.
ClassItems(nodes) ==
    {nodes.Item_member, nodes.Item_field, nodes.Item_pass, nodes.Item_method,
     FunctionDef(nodes.Item_method, <<nodes.Item_pass, nodes.Item_pass>>),
     FunctionDef(nodes.Item_method, <<nodes.Stmt_declare_x_str>>)}

\* The longest class body.
MaxClassItems == 2

ClassBodies(nodes) == UNION {[1..n -> ClassItems(nodes)] : n \in 1..MaxClassItems}

ClassHeaders(nodes) == {nodes.Class_E, nodes.Class_F, nodes.Class_S, nodes.Class_T}

\* The class definition of a header with the items as its body.
ClassDef(header, body) == [header EXCEPT !.body = body]

\* The modules: a class and main; the same class twice; g and main with a
\* declaration, u being new or the parameter of main; k before main; a
\* declaration in bracket form in main, and one after main.
SemCases(nodes) ==
    {<<ClassDef(header, body), nodes.Header_main>> :
         header \in ClassHeaders(nodes), body \in ClassBodies(nodes)}
    \cup {<<nodes.Class_S, nodes.Class_S, nodes.Header_main>>}
    \cup {<<nodes.Header_g,
            FunctionDef(header, <<Declaration(nodes[type], nodes[value])>>)>> :
              header \in {nodes.Header_main, nodes.Header_main_u},
              type \in CaseTypes, value \in UntypedValues}
    \cup {<<k, nodes.Header_main>> :
              k \in {nodes.Header_k_ptr, nodes.Header_k_array, nodes.Header_k_string}}
    \cup {<<FunctionDef(nodes.Header_main, <<p>>)>> :
              p \in {nodes.Stmt_declare_p_ptr, nodes.Stmt_declare_p_array,
                     nodes.Stmt_declare_p_string}}
    \cup {<<nodes.Header_main, p>> :
              p \in {nodes.Stmt_declare_p_ptr, nodes.Stmt_declare_p_string}}

\* The fields of the SemanticAnalyzer object (semantic.h:80-97).
SemObject(s) ==
    [symbol_table |-> s.symbol_table,
     current_function_return_type |-> s.current_function_return_type,
     loop_depth |-> s.loop_depth, current_file |-> s.current_file,
     has_error |-> s.has_error, error_message |-> s.error_message]

\* Where analyze_ast(analyzer, ast) of main.c:192 stands: the module, the index i
\* of the module item and j of the body statement, the return type saved by
\* analyze_function_def, and the bool returned.
SemAt(s, pc, i, j) ==
    [pc |-> pc, ast |-> s.ast, i |-> i, j |-> j,
     old_return_type |-> s.old_return_type, result |-> FALSE]

\* The state after a call that returned r: on true the analysis goes on at
\* on_true, on false at on_false.
SemAfter(r, on_true, on_false) == r.an @@ (IF r.ok THEN on_true ELSE on_false)

\* main.c:181-192: a Module, assembled from the nodes of the texts, is handed to
\* analyze_ast with a new analyzer for the input file.
SemInit ==
    \E nodes \in {SemNodes} :
        \/ \E layout \in 1..Len(SemLayouts(nodes)), header \in SemHeaders,
              n \in 1..MaxStatements, current_file \in SemFiles :
               \E body \in [1..n -> SemStatements] :
                   sem = semantic_analyzer_new(current_file)
                         @@ [pc |-> "first_pass",
                             ast |-> SemModule(nodes, SemLayouts(nodes)[layout], header,
                                               body),
                             i |-> 1, j |-> 1, old_return_type |-> NULL, result |-> FALSE]
        \/ \E body \in SemCases(nodes) :
                   sem = semantic_analyzer_new(File_program)
                         @@ [pc |-> "first_pass",
                             ast |-> [type |-> "AST_MODULE", body |-> body],
                             i |-> 1, j |-> 1, old_return_type |-> NULL, result |-> FALSE]

\* One iteration of the first loop of analyze_module.
SemFirstPassItem ==
    /\ sem.pc = "first_pass"
    /\ sem.i <= Len(sem.ast.body)
    /\ sem' = SemAfter(analyze_module_first_pass_item(SemObject(sem), sem.ast.body[sem.i]),
                       SemAt(sem, "first_pass", sem.i + 1, 1),
                       SemAt(sem, "returned", sem.i, 1))
    /\ UNCHANGED <<tc, lexer, parser, drv, cg>>

\* The first loop is left: the check for main.
SemMainCheck ==
    /\ sem.pc = "first_pass"
    /\ sem.i > Len(sem.ast.body)
    /\ sem' = SemAfter(analyze_module_main_check(SemObject(sem)),
                       SemAt(sem, "second_pass", 1, 1),
                       SemAt(sem, "returned", sem.i, 1))
    /\ UNCHANGED <<tc, lexer, parser, drv, cg>>

\* The second loop at a function definition: analyze_function_def up to its body.
SemEnterFunction ==
    /\ sem.pc = "second_pass"
    /\ sem.i <= Len(sem.ast.body)
    /\ sem.ast.body[sem.i].type = "AST_FUNCTION_DEF"
    /\ sem' = SemAfter(analyze_function_def_enter(SemObject(sem), sem.ast.body[sem.i]),
                       [SemAt(sem, "body", sem.i, 1) EXCEPT
                            !.old_return_type = sem.current_function_return_type],
                       SemAt(sem, "returned", sem.i, 1))
    /\ UNCHANGED <<tc, lexer, parser, drv, cg>>

\* One iteration of the statement loop of analyze_function_def.
SemStatement ==
    /\ sem.pc = "body"
    /\ sem.j <= Len(sem.ast.body[sem.i].body)
    /\ sem' = SemAfter(analyze_ast(SemObject(sem), sem.ast.body[sem.i].body[sem.j]),
                       SemAt(sem, "body", sem.i, sem.j + 1),
                       SemAt(sem, "failed", sem.i, sem.j))
    /\ UNCHANGED <<tc, lexer, parser, drv, cg>>

\* The statement loop is left: analyze_function_def pops its scope and returns,
\* and on false so does analyze_module.
SemLeaveFunction ==
    /\ \/ sem.pc = "body" /\ sem.j > Len(sem.ast.body[sem.i].body)
       \/ sem.pc = "failed"
    /\ sem' = analyze_function_def_exit(SemObject(sem), sem.old_return_type)
              @@ (IF sem.pc = "failed"
                  THEN SemAt(sem, "returned", sem.i, sem.j)
                  ELSE SemAt(sem, "second_pass", sem.i + 1, 1))
    /\ UNCHANGED <<tc, lexer, parser, drv, cg>>

\* The second loop at an item that is not a function definition.
SemTopLevelItem ==
    /\ sem.pc = "second_pass"
    /\ sem.i <= Len(sem.ast.body)
    /\ sem.ast.body[sem.i].type # "AST_FUNCTION_DEF"
    /\ sem' = SemAfter(analyze_module_second_pass_item(SemObject(sem), sem.ast.body[sem.i]),
                       SemAt(sem, "second_pass", sem.i + 1, 1),
                       SemAt(sem, "returned", sem.i, 1))
    /\ UNCHANGED <<tc, lexer, parser, drv, cg>>

\* The second loop is left: analyze_module returns true.
SemReturn ==
    /\ sem.pc = "second_pass"
    /\ sem.i > Len(sem.ast.body)
    /\ sem' = [sem EXCEPT !.pc = "returned", !.result = TRUE]
    /\ UNCHANGED <<tc, lexer, parser, drv, cg>>

SpecSemInit ==
    /\ SemInit
    /\ tc = TcIdle
    /\ lexer = LexerIdle
    /\ parser = ParserIdle
    /\ drv = DrvIdle
    /\ cg = CgIdle

SpecSemNext ==
    \/ SemFirstPassItem
    \/ SemMainCheck
    \/ SemEnterFunction
    \/ SemStatement
    \/ SemLeaveFunction
    \/ SemTopLevelItem
    \/ SemReturn

SpecSem == SpecSemInit /\ [][SpecSemNext]_vars

-----------------------------------------------------------------------------
(* The properties of the analyzer, stated on the module handed to analyze_ast *)
(* and on the analyzer it leaves.                                              *)

\* The nodes directly below a node that are read when it is evaluated: the
\* target of a declaration, of an assignment and of a for loop, and the type
\* annotations, are not among them.
Children(node) ==
    CASE node.type = "AST_BINOP" -> <<node.left, node.right>>
      [] node.type = "AST_UNARYOP" -> <<node.operand>>
      [] node.type = "AST_BOOLOP" -> node.values
      [] node.type = "AST_COMPARE" -> <<node.left>> \o node.comparators
      [] node.type = "AST_CALL" -> <<node.func>> \o node.args
      [] node.type = "AST_ATTRIBUTE" -> <<node.value>>
      [] node.type = "AST_SUBSCRIPT" -> <<node.value, node.slice>>
      [] node.type \in {"AST_EXPR_STMT", "AST_RETURN", "AST_ANN_ASSIGN", "AST_ASSIGN"} ->
             <<node.value>>
      [] node.type = "AST_IF" -> <<node.test>> \o node.body \o node.orelse
      [] node.type = "AST_WHILE" -> <<node.test>> \o node.body
      [] node.type = "AST_FOR" -> <<node.iter>> \o node.body
      [] node.type = "AST_FUNCTION_DEF" -> node.body
      [] OTHER -> <<>>

\* The identifiers of the Name nodes in load position in and below a node.
RECURSIVE LoadNames(_)
LoadNames(node) ==
    (IF node.type = "AST_NAME" THEN {node.id} ELSE {})
    \cup UNION {LoadNames(Children(node)[k]) : k \in 1..Len(Children(node))}

\* The names declared by the declarations and for loops in and below a node.
RECURSIVE DeclaredNames(_)
DeclaredNames(node) ==
    (IF node.type \in {"AST_ANN_ASSIGN", "AST_FOR"} /\ node.target.type = "AST_NAME"
     THEN {node.target.id} ELSE {})
    \cup UNION {DeclaredNames(Children(node)[k]) : k \in 1..Len(Children(node))}

\* The names called in and below a node.
RECURSIVE CalleeNames(_)
CalleeNames(node) ==
    (IF node.type = "AST_CALL" /\ node.func.type = "AST_NAME" THEN {node.func.id} ELSE {})
    \cup UNION {CalleeNames(Children(node)[k]) : k \in 1..Len(Children(node))}

\* A Break or Continue in or below a statement with no While or For around it.
RECURSIVE LooseBreak(_)
LooseBreak(node) ==
    \/ node.type \in {"AST_BREAK", "AST_CONTINUE"}
    \/ /\ node.type = "AST_IF"
       /\ \E k \in 1..Len(node.body \o node.orelse) : LooseBreak((node.body \o node.orelse)[k])

\* The names of the parameters of a function definition.
ParameterNames(item) ==
    IF item.args = NullNode THEN {}
    ELSE {item.args.args[k].arg : k \in 1..Len(item.args.args)}

\* The indices of the top-level function definitions of the module under
\* analysis, and their names.
TopLevelFunctions ==
    {i \in 1..Len(sem.ast.body) : sem.ast.body[i].type = "AST_FUNCTION_DEF"}

TopLevelFunctionNames == {sem.ast.body[i].name : i \in TopLevelFunctions}

\* The names of the symbols of a scope.
ScopeNames(scope) == {scope[k].name : k \in 1..Len(scope)}

\* analyze_ast returned true.
SemAccepted == sem.pc = "returned" /\ sem.result

\* C5: in every program the analyzer accepts, every Name in load position in
\* a top-level function body, also inside an if block, resolves: it is the
\* name of a symbol of the global scope, of a parameter or of a declaration
\* of the function (print and range, which analyze_call knows without a
\* symbol, set aside).
C5_AcceptedLoadNamesResolve ==
    SemAccepted =>
        \A i \in TopLevelFunctions :
            (LoadNames(sem.ast.body[i]) \ {S_print, S_range})
                \subseteq (ScopeNames(sem.symbol_table[1])
                           \cup ParameterNames(sem.ast.body[i])
                           \cup DeclaredNames(sem.ast.body[i]))

\* C9: a Break or Continue of a function body with no While or For around
\* it, also one nested inside an If, makes the analyzer fail: no accepted
\* program has one.
C9_AcceptedHasNoLooseBreak ==
    SemAccepted =>
        \A i \in TopLevelFunctions :
            \A k \in 1..Len(sem.ast.body[i].body) : ~LooseBreak(sem.ast.body[i].body[k])

\* The number of parameters analyze_call expects of a function symbol.
ExpectedArgs(symbol) ==
    IF symbol.param_types # NullArray THEN Len(symbol.param_types.items) ELSE 0

\* C10: every accepted module whose file is not a library file has a
\* function symbol main in the global scope that takes no parameters.
C10_AcceptedProgramHasMainWithoutParameters ==
    (SemAccepted /\ ~is_library_file(sem.current_file)) =>
        LET main_symbol == scope_lookup(sem.symbol_table[1], S_main)
        IN  /\ main_symbol # NullSymbol
            /\ main_symbol.type = "SYM_FUNCTION"
            /\ ExpectedArgs(main_symbol) = 0

\* The parameter types and the return type written in a function definition,
\* and the parameter types stored in a function symbol.
ParameterTypes(item) ==
    IF item.args = NullNode THEN <<>>
    ELSE [k \in 1..Len(item.args.args) |-> get_type_name(item.args.args[k].annotation)]

ReturnType(item) == IF item.returns = NullNode THEN NULL ELSE get_type_name(item.returns)

SymbolParameterTypes(symbol) ==
    IF symbol.param_types = NullArray THEN <<>> ELSE symbol.param_types.items

\* The second pass of analyze_module has begun.
SecondPassBegun == sem.pc \in {"second_pass", "body", "failed"} \/ SemAccepted

\* The global scope holds the signature of the i-th module item.
SignatureRegistered(i) ==
    LET symbol == scope_lookup(sem.symbol_table[1], sem.ast.body[i].name)
    IN  /\ symbol # NullSymbol
        /\ symbol.type = "SYM_FUNCTION"
        /\ SymbolParameterTypes(symbol) = ParameterTypes(sem.ast.body[i])
        /\ symbol.return_type = ReturnType(sem.ast.body[i])

\* The statement of a function body on which analyze_function_def stands.
SemBodyStatement == sem.ast.body[sem.i].body[sem.j]

\* A body statement has just failed with "Function not defined".
CallFailedUndefined == sem.pc = "failed" /\ sem.error_message = "Function not defined"

\* A parameter or a variable of the function under analysis has the name.
ShadowedInFunction(name) ==
    symbol_table_lookup_current_scope(sem.symbol_table, name) # NullSymbol

\* C6: once the second pass has begun, every top-level function is registered
\* in the global scope with its parameter and return types; and a body
\* statement fails with "Function not defined" only if it calls a name that
\* is not a top-level function, or one that a parameter or variable of the
\* calling function shadows.
C6_RegisteredBeforeBodiesUnlessShadowed ==
    /\ SecondPassBegun => \A i \in TopLevelFunctions : SignatureRegistered(i)
    /\ CallFailedUndefined =>
           \E name \in CalleeNames(SemBodyStatement) :
               name \notin TopLevelFunctionNames \/ ShadowedInFunction(name)

\* C6 as stated, shadowing not set aside: a body statement fails with
\* "Function not defined" only if it calls a name that is not a top-level
\* function of the module.
C6_RegisteredBeforeBodies ==
    /\ SecondPassBegun => \A i \in TopLevelFunctions : SignatureRegistered(i)
    /\ CallFailedUndefined =>
           \E name \in CalleeNames(SemBodyStatement) : name \notin TopLevelFunctionNames

\* An accepted module with two functions that call each other, the first
\* calling the second before its definition.
C6_Witness ==
    /\ SemAccepted
    /\ \E a \in TopLevelFunctions, b \in TopLevelFunctions :
           /\ a < b
           /\ sem.ast.body[b].name \in CalleeNames(sem.ast.body[a])
           /\ sem.ast.body[a].name \in CalleeNames(sem.ast.body[b])

\* A declaration x: T = E, with a name as its target and a type name.
IsDeclaration(stmt) ==
    /\ stmt.type = "AST_ANN_ASSIGN"
    /\ stmt.target.type = "AST_NAME"
    /\ stmt.value # NullNode
    /\ get_type_name(stmt.annotation) # NULL

\* analyze_function_def stands on a declaration whose value analyses without
\* an error.
AtTypedDeclaration ==
    /\ sem.pc = "body"
    /\ sem.j <= Len(sem.ast.body[sem.i].body)
    /\ IsDeclaration(SemBodyStatement)
    /\ analyze_expression(SemObject(sem), SemBodyStatement.value).ok

\* The step taken on the declaration succeeds only with a compatible type, and
\* with an incompatible one fails with the message and leaves the name out of
\* the current scope.
DeclarationTypeChecked ==
    LET compatible ==
            types_compatible(get_type_name(SemBodyStatement.annotation),
                             analyze_expression(SemObject(sem), SemBodyStatement.value).type)
    IN  /\ sem'.pc = "body" => compatible
        /\ ~compatible =>
               /\ sem'.pc = "failed"
               /\ sem'.has_error
               /\ sem'.error_message = "Type mismatch in assignment"
               /\ symbol_table_lookup_current_scope(sem'.symbol_table,
                                                    SemBodyStatement.target.id) = NullSymbol

SymbolNames(scope) == [k \in 1..Len(scope) |-> scope[k].name]

\* C15: in every state of the analysis no scope of the symbol table holds two
\* symbols of the same name.
C15_ScopeNamesDistinct ==
    sem.pc # "idle" =>
        \A d \in 1..Len(sem.symbol_table) :
            \A k, l \in 1..Len(sem.symbol_table[d]) :
                sem.symbol_table[d][k].name = sem.symbol_table[d][l].name => k = l

\* An item of the module is being analysed in the second pass, between the
\* entry of analyze_function_def and its return.
InFunction == sem.pc \in {"body", "failed"}

\* C16: analyze_function_def pushes one scope and pops one on each of its
\* return paths (a parameter without a type, a failing body statement, the
\* end of the body), so the scopes at its return are those at its entry, and
\* the global scope is the current one whenever analyze_module returns.
C16_FunctionScopePushedAndPopped ==
    [][/\ (sem.pc = "second_pass" /\ sem'.pc = "body") =>
              /\ Len(sem'.symbol_table) = Len(sem.symbol_table) + 1
              /\ SubSeq(sem'.symbol_table, 1, Len(sem.symbol_table)) = sem.symbol_table
       /\ (sem.pc = "second_pass" /\ sem'.pc # "body") =>
              Len(sem'.symbol_table) = Len(sem.symbol_table)
       /\ (InFunction /\ sem'.pc \in {"body", "failed"}) =>
              /\ Len(sem'.symbol_table) = Len(sem.symbol_table)
              /\ SubSeq(sem'.symbol_table, 1, Len(sem.symbol_table) - 1)
                     = SubSeq(sem.symbol_table, 1, Len(sem.symbol_table) - 1)
       /\ (InFunction /\ sem'.pc \notin {"body", "failed"}) =>
              sem'.symbol_table = SubSeq(sem.symbol_table, 1, Len(sem.symbol_table) - 1)
       /\ sem'.pc = "returned" => Len(sem'.symbol_table) = 1
      ]_vars

\* A function nested in the body of g has returned false at its parameter
\* without a type, and the scope of g is the current one again.
C16_Witness ==
    /\ sem.pc = "failed"
    /\ sem.error_message = "Parameter must have type annotation"
    /\ Len(sem.symbol_table) = 2
    /\ SymbolNames(sem.symbol_table[2]) = << <<"n">> >>

\* The kind of a class definition: Enum if a base is the name Enum; otherwise
\* Struct if the body holds an annotated field or a method whose body is more
\* than a lone pass; otherwise Interface.
ClassKind(item) ==
    IF \E b \in 1..Len(item.bases) :
           item.bases[b].type = "AST_NAME" /\ item.bases[b].id = S_Enum
    THEN "SYM_ENUM"
    ELSE IF \E k \in 1..Len(item.body) :
                \/ item.body[k].type = "AST_ANN_ASSIGN"
                \/ /\ item.body[k].type = "AST_FUNCTION_DEF"
                   /\ item.body[k].body # <<[type |-> "AST_PASS"]>>
    THEN "SYM_STRUCT"
    ELSE "SYM_INTERFACE"

\* The first loop is at a class definition, the second loop is at one.
AtClassInFirstPass ==
    /\ sem.pc = "first_pass"
    /\ sem.i <= Len(sem.ast.body)
    /\ sem.ast.body[sem.i].type = "AST_CLASS_DEF"

AtClassInSecondPass ==
    /\ sem.pc = "second_pass"
    /\ sem.i <= Len(sem.ast.body)
    /\ sem.ast.body[sem.i].type = "AST_CLASS_DEF"

\* C25: when the first loop of analyze_module accepts a top-level class, the
\* global scope holds exactly one symbol of its name, and the kind of that
\* symbol is Enum if a base of the class is the name Enum, otherwise Struct if
\* its body holds an annotated field or a method whose body is more than a lone
\* pass, otherwise Interface.
C25_ClassKindRegistered ==
    [][(AtClassInFirstPass /\ sem'.pc = "first_pass") =>
           \E k \in 1..Len(sem'.symbol_table[1]) :
               /\ sem'.symbol_table[1][k].name = sem.ast.body[sem.i].name
               /\ sem'.symbol_table[1][k].type = ClassKind(sem.ast.body[sem.i])
               /\ \A other \in 1..Len(sem'.symbol_table[1]) :
                      sem'.symbol_table[1][other].name = sem.ast.body[sem.i].name =>
                          other = k
      ]_vars

\* A class without a base and without a field has been registered as a struct
\* for its one method, whose body is two pass statements.
C25_Witness ==
    /\ sem.pc = "first_pass"
    /\ sem.i = 2
    /\ sem.ast.body[1].type = "AST_CLASS_DEF"
    /\ Len(sem.ast.body[1].bases) = 0
    /\ Len(sem.ast.body[1].body) = 1
    /\ sem.ast.body[1].body[1].type = "AST_FUNCTION_DEF"
    /\ sem.ast.body[1].body[1].body = <<[type |-> "AST_PASS"], [type |-> "AST_PASS"]>>
    /\ Len(sem.symbol_table[1]) = 1
    /\ sem.symbol_table[1][1].type = "SYM_STRUCT"
    /\ sem.symbol_table[1][1].fields = <<>>
    /\ Len(sem.symbol_table[1][1].methods) = 1

\* An expression the analyzer gives no type: a UnaryOp, a BoolOp, a Subscript,
\* a call of print, a call of a function registered without a return type.
HasNoInferredType(analyzer, expr) ==
    \/ expr.type \in {"AST_UNARYOP", "AST_BOOLOP", "AST_SUBSCRIPT"}
    \/ /\ expr.type = "AST_CALL"
       /\ expr.func.type = "AST_NAME"
       /\ \/ expr.func.id = S_print
          \/ LET symbol == symbol_table_lookup(analyzer.symbol_table, expr.func.id)
             IN  /\ symbol # NullSymbol
                 /\ symbol.type = "SYM_FUNCTION"
                 /\ symbol.return_type = NULL

\* analyze_function_def stands on a declaration x: T = E whose value has no
\* inferred type.
AtUntypedDeclaration ==
    /\ sem.pc = "body"
    /\ sem.j <= Len(sem.ast.body[sem.i].body)
    /\ SemBodyStatement.type = "AST_ANN_ASSIGN"
    /\ SemBodyStatement.target.type = "AST_NAME"
    /\ SemBodyStatement.value # NullNode
    /\ HasNoInferredType(SemObject(sem), SemBodyStatement.value)

\* The step taken on the declaration fails with "Type mismatch in assignment".
RejectedAsMismatch ==
    /\ sem'.pc = "failed"
    /\ sem'.has_error
    /\ sem'.error_message = "Type mismatch in assignment"

\* C28: a declaration x: T = E whose value E has no inferred type (a UnaryOp,
\* a BoolOp, a Subscript, a call of print or of a function without a return
\* type), whose annotation T is a name or a string, whose name x is not yet
\* declared in the current scope and whose value analyses without an error,
\* is rejected with "Type mismatch in assignment" for every such T.
C28_FreshUntypedValueRejected ==
    [][(/\ AtUntypedDeclaration
        /\ get_type_name(SemBodyStatement.annotation) # NULL
        /\ symbol_table_lookup_current_scope(sem.symbol_table, SemBodyStatement.target.id)
               = NullSymbol
        /\ analyze_expression(SemObject(sem), SemBodyStatement.value).ok)
           => RejectedAsMismatch]_vars

\* C28 as stated, for every annotation, name and value without a type.
C28_UntypedValueRejected == [][AtUntypedDeclaration => RejectedAsMismatch]_vars

\* The declaration of the new name u with a string for its type and a call of
\* g for its value has failed with "Type mismatch in assignment".
C28_Witness ==
    /\ sem.pc = "failed"
    /\ sem.error_message = "Type mismatch in assignment"
    /\ SemBodyStatement.type = "AST_ANN_ASSIGN"
    /\ SemBodyStatement.annotation.type = "AST_CONSTANT"
    /\ SemBodyStatement.value.type = "AST_CALL"
    /\ SemBodyStatement.value.func.id = <<"g">>
    /\ symbol_table_lookup(sem.symbol_table, <<"g">>).return_type = NULL
    /\ symbol_table_lookup_current_scope(sem.symbol_table, <<"u">>) = NullSymbol

\* The parameters of a function definition.
Parameters(item) ==
    IF item.args # NullNode /\ item.args.type = "AST_ARGUMENTS" THEN item.args.args
    ELSE <<>>

\* The annotations of the parameters of the top-level functions and of the
\* declarations among the module items and the statements of the functions.
Annotations(module) ==
    UNION {IF module.body[k].type = "AST_FUNCTION_DEF"
           THEN {Parameters(module.body[k])[a].annotation :
                     a \in 1..Len(Parameters(module.body[k]))}
                \cup {module.body[k].body[s].annotation :
                          s \in {d \in 1..Len(module.body[k].body) :
                                     module.body[k].body[d].type = "AST_ANN_ASSIGN"}}
           ELSE IF module.body[k].type = "AST_ANN_ASSIGN" THEN {module.body[k].annotation}
           ELSE {} : k \in 1..Len(module.body)}

\* An annotation in bracket form, as parse_type_annotation returns it.
IsBracketForm(annotation) == annotation # NullNode /\ annotation.type = "AST_SUBSCRIPT"

\* A declaration of a name with an annotation in bracket form.
IsBracketDeclaration(stmt) ==
    /\ stmt.type = "AST_ANN_ASSIGN"
    /\ stmt.target.type = "AST_NAME"
    /\ IsBracketForm(stmt.annotation)

\* The first loop is at a function with a parameter in bracket form.
AtBracketParameter ==
    /\ sem.pc = "first_pass"
    /\ sem.i <= Len(sem.ast.body)
    /\ sem.ast.body[sem.i].type = "AST_FUNCTION_DEF"
    /\ \E a \in 1..Len(Parameters(sem.ast.body[sem.i])) :
           IsBracketForm(Parameters(sem.ast.body[sem.i])[a].annotation)

HollowMethod(stmt) ==
    IF stmt.type = "AST_FUNCTION_DEF" THEN [stmt EXCEPT !.body = <<[type |-> "AST_PASS"]>>]
    ELSE stmt

HollowClasses(module) ==
    [module EXCEPT !.body =
         [k \in 1..Len(@) |->
              IF @[k].type = "AST_CLASS_DEF"
              THEN [@[k] EXCEPT !.body = [m \in 1..Len(@) |-> HollowMethod(@[m])]]
              ELSE @[k]]]

\* The statements of the methods of the classes of a module.
MethodStatements(module) ==
    UNION {UNION {IF module.body[k].body[m].type = "AST_FUNCTION_DEF"
                  THEN {module.body[k].body[m].body[n] :
                            n \in 1..Len(module.body[k].body[m].body)}
                  ELSE {} : m \in 1..Len(module.body[k].body)} :
               k \in {c \in 1..Len(module.body) : module.body[c].type = "AST_CLASS_DEF"}}

\* C29: the second loop of analyze_module passes over a class definition and
\* leaves the analyzer as it is, so the statements in the methods of a class
\* are never analysed: analyze_ast returns for a module what it returns for
\* the module with every method body replaced by pass, and a module whose
\* only errors are in method bodies is accepted.
C29_MethodBodiesNotAnalysed ==
    /\ [][AtClassInSecondPass =>
              /\ SemObject(sem') = SemObject(sem)
              /\ sem'.pc = "second_pass"
              /\ sem'.i = sem.i + 1]_vars
    /\ [](sem.pc = "returned" =>
              sem.result = analyze_ast(semantic_analyzer_new(sem.current_file),
                                       HollowClasses(sem.ast)).ok)

\* analyze_ast has returned true for a module with a class and main, and a
\* statement of a method of the class is one analyze_ast returns false for.
C29_Witness ==
    /\ sem.pc = "returned"
    /\ sem.result
    /\ \E stmt \in MethodStatements(sem.ast) : ~analyze_ast(SemObject(sem), stmt).ok

-----------------------------------------------------------------------------
(* codegen.c: the emitter.  A CodeGenerator is the record of its four String  *)
(* buffers, the symbol table it was created with, indent_level and            *)
(* current_output; a String* is the name of the buffer it points to.          *)

\* The text codegen_new stores in includes (codegen.c:12).
Includes ==
    <<"#", "i", "n", "c", "l", "u", "d", "e", " ", "\"", ".", ".", "/", "r", "u", "n",
      "t", "i", "m", "e", "/", "p", "y", "r", "i", "n", "a", "s", ".", "h", "\"", "\n">>

\* codegen_new (codegen.c:5-25) when its allocations succeed.
codegen_new(symbol_table) ==
    [main_code |-> <<>>, function_definitions |-> <<>>, struct_definitions |-> <<>>,
     includes |-> Includes, current_output |-> "main_code",
     symbol_table |-> symbol_table, indent_level |-> 0]

\* string_append on one of the buffers of the generator.
string_append(g, output, str) == [g EXCEPT ![output] = @ \o str]

\* generate_indent (codegen.c:37-41): four spaces for each level.
generate_indent(g, output) ==
    string_append(g, output, [k \in 1..(4 * g.indent_level) |-> " "])

\* strrchr(str, c) as an index into the string, 0 for NULL.
RECURSIVE strrchr(_, _, _)
strrchr(str, c, i) ==
    IF i = 0 THEN 0 ELSE IF str[i] = c THEN i ELSE strrchr(str, c, i - 1)

\* strchr(str + from, c) as an index into the string, 0 for NULL.
RECURSIVE strchr_from(_, _, _)
strchr_from(str, c, i) ==
    IF i > Len(str) THEN 0 ELSE IF str[i] = c THEN i ELSE strchr_from(str, c, i + 1)

is_array_type(type) == type # NULL /\ StrStrAtStart(type, <<"a", "r", "r", "a", "y", "[">>)

is_result_type(type) == type # NULL /\ StrStrAtStart(type, <<"R", "e", "s", "u", "l", "t", "[">>)

\* extract_pointer_base_type (semantic.c:360-373): the text between "ptr[" and
\* the last ']'.
extract_pointer_base_type(pointer_type) ==
    IF ~is_pointer_type(pointer_type) THEN NULL
    ELSE LET end == strrchr(pointer_type, "]", Len(pointer_type))
         IN  IF end = 0 THEN NULL ELSE SubSeq(pointer_type, 5, end - 1)

\* The base type parse_array_type stores (semantic.c:375-396): the text between
\* "array[" and the first ',' after it; NULL, the value the caller put there,
\* when the ',' or the ']' is missing.
parse_array_type_base(array_type) ==
    IF ~is_array_type(array_type) THEN NULL
    ELSE LET comma == strchr_from(array_type, ",", 7)
             end == strrchr(array_type, "]", Len(array_type))
         IN  IF comma = 0 \/ end = 0 THEN NULL ELSE SubSeq(array_type, 7, comma - 1)

\* c_type_from_pyrinas_type (codegen.c:43-82).
RECURSIVE c_type_from_pyrinas_type(_)
c_type_from_pyrinas_type(pyrinas_type) ==
    IF pyrinas_type = NULL THEN <<"v", "o", "i", "d">>
    ELSE IF pyrinas_type = S_int THEN <<"i", "n", "t">>
    ELSE IF pyrinas_type = S_float THEN <<"f", "l", "o", "a", "t">>
    ELSE IF pyrinas_type = S_bool THEN <<"i", "n", "t">>
    ELSE IF pyrinas_type = S_str THEN <<"c", "h", "a", "r", "*">>
    ELSE IF pyrinas_type = S_void THEN <<"v", "o", "i", "d">>
    ELSE IF is_pointer_type(pyrinas_type)
    THEN c_type_from_pyrinas_type(extract_pointer_base_type(pyrinas_type)) \o <<"*">>
    ELSE IF is_array_type(pyrinas_type)
    THEN c_type_from_pyrinas_type(parse_array_type_base(pyrinas_type)) \o <<"*">>
    ELSE IF is_result_type(pyrinas_type) THEN <<"R", "e", "s", "u", "l", "t">>
    ELSE <<"s", "t", "r", "u", "c", "t", " ">> \o pyrinas_type

DigitChars == <<"0", "1", "2", "3", "4", "5", "6", "7", "8", "9">>

\* The digits of a natural number.
RECURSIVE DecimalDigits(_)
DecimalDigits(n) ==
    IF n < 10 THEN <<DigitChars[n + 1]>>
    ELSE DecimalDigits(n \div 10) \o <<DigitChars[(n % 10) + 1]>>

\* sprintf(buf, "%d", value).
sprintf_d(value) ==
    IF value < 0 THEN <<"-">> \o DecimalDigits(-value) ELSE DecimalDigits(value)

\* 10 to the power n.
RECURSIVE Pow10(_)
Pow10(n) == IF n = 0 THEN 1 ELSE 10 * Pow10(n - 1)

\* The digits of n padded with zeros on the left to the width.
ZeroPadded(n, width) ==
    LET digits == DecimalDigits(n)
    IN  [k \in 1..(width - Len(digits)) |-> "0"] \o digits

\* sprintf(buf, "%f", value) for the decimal mant / 10^scale: the integer
\* part, a point and six digits; a seventh digit and beyond are rounded to the
\* nearest, as printf does for the values of the sample texts (scale <= 6 is
\* exact).
sprintf_f(value) ==
    LET micro == IF value.scale <= 6 THEN value.mant * Pow10(6 - value.scale)
                 ELSE (value.mant + (Pow10(value.scale - 6) \div 2))
                          \div Pow10(value.scale - 6)
    IN  DecimalDigits(micro \div 1000000) \o <<".">> \o ZeroPadded(micro % 1000000, 6)

\* The format generate_call puts before the argument of print for a type name
\* (codegen.c:466-474 and 491-499).
format_of_type(type) ==
    IF type = S_float THEN <<"\"", "%", "f", "\\", "n", "\"", ",", " ">>
    ELSE IF type = S_str THEN <<"\"", "%", "s", "\\", "n", "\"", ",", " ">>
    ELSE <<"\"", "%", "d", "\\", "n", "\"", ",", " ">>

\* The field of a struct symbol with the name, NullObject when it has none
\* (the loop at codegen.c:487-502).
struct_field(type_symbol, field_name) ==
    IF \E k \in 1..Len(type_symbol.fields) : type_symbol.fields[k].name = field_name
    THEN type_symbol.fields[CHOOSE k \in 1..Len(type_symbol.fields) :
                                /\ type_symbol.fields[k].name = field_name
                                /\ \A l \in 1..(k - 1) :
                                       type_symbol.fields[l].name # field_name]
    ELSE NullObject

\* The format generate_call chooses for the argument of print
\* (codegen.c:443-516).
print_format(g, arg) ==
    IF arg.type = "AST_CONSTANT"
    THEN CASE arg.value.type = "CONST_INT" -> <<"\"", "%", "d", "\\", "n", "\"", ",", " ">>
           [] arg.value.type = "CONST_FLOAT" -> <<"\"", "%", "f", "\\", "n", "\"", ",", " ">>
           [] arg.value.type = "CONST_STRING" -> <<"\"", "%", "s", "\\", "n", "\"", ",", " ">>
           [] arg.value.type = "CONST_BOOL" -> <<"\"", "%", "d", "\\", "n", "\"", ",", " ">>
           [] OTHER -> <<"\"", "%", "s", "\\", "n", "\"", ",", " ">>
    ELSE IF arg.type = "AST_NAME"
    THEN LET symbol == symbol_table_lookup(g.symbol_table, arg.id)
         IN  IF symbol # NullSymbol /\ symbol.value_type # NULL
             THEN format_of_type(symbol.value_type)
             ELSE <<"\"", "%", "d", "\\", "n", "\"", ",", " ">>
    ELSE IF arg.type = "AST_ATTRIBUTE"
    THEN IF arg.value.type # "AST_NAME" THEN <<"\"", "%", "d", "\\", "n", "\"", ",", " ">>
         ELSE
         LET struct_symbol == symbol_table_lookup(g.symbol_table, arg.value.id) IN
         IF struct_symbol = NullSymbol \/ struct_symbol.value_type = NULL
         THEN <<"\"", "%", "d", "\\", "n", "\"", ",", " ">>
         ELSE
         LET type_symbol == symbol_table_lookup(g.symbol_table, struct_symbol.value_type)
         IN  IF type_symbol = NullSymbol \/ type_symbol.type # "SYM_STRUCT"
             THEN <<"\"", "%", "d", "\\", "n", "\"", ",", " ">>
             ELSE IF struct_field(type_symbol, arg.attr) = NullObject
             THEN <<"\"", "%", "d", "\\", "n", "\"", ",", " ">>
             ELSE format_of_type(struct_field(type_symbol, arg.attr).type)
    ELSE <<"\"", "%", "d", "\\", "n", "\"", ",", " ">>

\* The text generate_binop puts between its operands (codegen.c:419-426).
binop_text(op) ==
    CASE op = "BINOP_ADD" -> <<" ", "+", " ">>
      [] op = "BINOP_SUB" -> <<" ", "-", " ">>
      [] op = "BINOP_MULT" -> <<" ", "*", " ">>
      [] op = "BINOP_DIV" -> <<" ", "/", " ">>
      [] op = "BINOP_MOD" -> <<" ", "%", " ">>
      [] op = "BINOP_FLOORDIV" -> <<" ", "/", " ">>
      [] OTHER -> <<>>

RECURSIVE generate_expression(_, _, _), generate_call_arguments(_, _, _, _)

generate_name(g, node, output) == string_append(g, output, node.id)

\* generate_constant (codegen.c:383-411).
generate_constant(g, node, output) ==
    CASE node.value.type = "CONST_INT" -> string_append(g, output, sprintf_d(node.value.int_val))
      [] node.value.type = "CONST_FLOAT" ->
             string_append(g, output, sprintf_f(node.value.float_val))
      [] node.value.type = "CONST_STRING" ->
             string_append(g, output, <<"\"">> \o node.value.str_val \o <<"\"">>)
      [] node.value.type = "CONST_BOOL" ->
             string_append(g, output, IF node.value.bool_val THEN <<"1">> ELSE <<"0">>)
      [] node.value.type = "CONST_NONE" -> string_append(g, output, <<"N", "U", "L", "L">>)
      [] OTHER -> g

\* generate_binop (codegen.c:413-430).
generate_binop(g, node, output) ==
    string_append(
        generate_expression(
            string_append(
                generate_expression(string_append(g, output, <<"(">>), node.left, output),
                output, binop_text(node.op)),
            node.right, output),
        output, <<")">>)

\* generate_compare (codegen.c:561-577): the operator written is always ==,
\* and only the first comparator is written.
generate_compare(g, node, output) ==
    IF Len(node.comparators) > 0
    THEN generate_expression(
             string_append(generate_expression(g, node.left, output), output, <<" ", "=", "=", " ">>),
             node.comparators[1], output)
    ELSE generate_expression(g, node.left, output)

\* The argument loop of a regular call (codegen.c:528-531), from argument i on.
generate_call_arguments(g, args, output, i) ==
    IF i > Len(args) THEN g
    ELSE generate_call_arguments(
             generate_expression(IF i > 1 THEN string_append(g, output, <<",", " ">>) ELSE g,
                                 args[i], output),
             args, output, i + 1)

\* generate_call (codegen.c:432-535).
generate_call(g, node, output) ==
    IF node.func.type = "AST_NAME" /\ node.func.id = S_print
    THEN IF Len(node.args) > 0
         THEN string_append(
                  generate_expression(
                      string_append(string_append(g, output, <<"p", "r", "i", "n", "t", "f", "(">>), output,
                                    print_format(g, node.args[1])),
                      node.args[1], output),
                  output, <<")">>)
         ELSE string_append(g, output, <<"p", "r", "i", "n", "t", "f", "(", ")">>)
    ELSE string_append(
             generate_call_arguments(
                 string_append(generate_expression(g, node.func, output), output, <<"(">>),
                 node.args, output, 1),
             output, <<")">>)

\* generate_attribute (codegen.c:537-544).
generate_attribute(g, node, output) ==
    string_append(generate_expression(g, node.value, output), output, <<".">> \o node.attr)

\* generate_subscript (codegen.c:546-554).
generate_subscript(g, node, output) ==
    string_append(
        generate_expression(
            string_append(generate_expression(g, node.value, output), output, <<"[">>),
            node.slice, output),
        output, <<"]">>)

\* generate_expression (codegen.c:342-376): generate_unaryop and
\* generate_boolop have empty bodies (codegen.c:560 and 578).
generate_expression(g, node, output) ==
    IF node = NullNode THEN g
    ELSE CASE node.type = "AST_NAME" -> generate_name(g, node, output)
           [] node.type = "AST_CONSTANT" -> generate_constant(g, node, output)
           [] node.type = "AST_BINOP" -> generate_binop(g, node, output)
           [] node.type = "AST_UNARYOP" -> g
           [] node.type = "AST_COMPARE" -> generate_compare(g, node, output)
           [] node.type = "AST_BOOLOP" -> g
           [] node.type = "AST_CALL" -> generate_call(g, node, output)
           [] node.type = "AST_ATTRIBUTE" -> generate_attribute(g, node, output)
           [] node.type = "AST_SUBSCRIPT" -> generate_subscript(g, node, output)
           [] OTHER -> g

\* generate_ann_assign (codegen.c:282-303): the text goes to main_code.
generate_ann_assign(g, node) ==
    string_append(
        IF node.value # NullNode
        THEN generate_expression(
                 string_append(
                     string_append(generate_indent(g, "main_code"), "main_code",
                                   c_type_from_pyrinas_type(get_type_name(node.annotation))
                                   \o <<" ">> \o node.target.id),
                     "main_code", <<" ", "=", " ">>),
                 node.value, "main_code")
        ELSE string_append(generate_indent(g, "main_code"), "main_code",
                           c_type_from_pyrinas_type(get_type_name(node.annotation))
                           \o <<" ">> \o node.target.id),
        "main_code", <<";", "\n">>)

\* generate_assign (codegen.c:305-318): the text goes to main_code.
generate_assign(g, node) ==
    string_append(
        generate_expression(
            string_append(
                IF Len(node.targets) > 0
                THEN generate_expression(generate_indent(g, "main_code"), node.targets[1],
                                         "main_code")
                ELSE generate_indent(g, "main_code"),
                "main_code", <<" ", "=", " ">>),
            node.value, "main_code"),
        "main_code", <<";", "\n">>)

\* generate_return (codegen.c:320-332): the text goes to current_output.
generate_return(g, node) ==
    string_append(
        IF node.value # NullNode
        THEN generate_expression(
                 string_append(generate_indent(g, g.current_output), g.current_output,
                               <<"r", "e", "t", "u", "r", "n", " ">>),
                 node.value, g.current_output)
        ELSE string_append(generate_indent(g, g.current_output), g.current_output,
                           <<"r", "e", "t", "u", "r", "n">>),
        g.current_output, <<";", "\n">>)

\* generate_expr_stmt (codegen.c:334-340): the text goes to main_code.
generate_expr_stmt(g, node) ==
    string_append(
        generate_expression(generate_indent(g, "main_code"), node.value, "main_code"),
        "main_code", <<";", "\n">>)

\* generate_statement (codegen.c:241-280): generate_if, generate_while and
\* generate_for have empty bodies (codegen.c:557-559).
generate_statement(g, node) ==
    IF node = NullNode THEN g
    ELSE CASE node.type = "AST_ANN_ASSIGN" -> generate_ann_assign(g, node)
           [] node.type = "AST_ASSIGN" -> generate_assign(g, node)
           [] node.type = "AST_IF" -> g
           [] node.type = "AST_WHILE" -> g
           [] node.type = "AST_FOR" -> g
           [] node.type = "AST_RETURN" -> generate_return(g, node)
           [] node.type = "AST_EXPR_STMT" -> generate_expr_stmt(g, node)
           [] node.type = "AST_BREAK" ->
                  string_append(generate_indent(g, "main_code"), "main_code", <<"b", "r", "e", "a", "k", ";", "\n">>)
           [] node.type = "AST_CONTINUE" ->
                  string_append(generate_indent(g, "main_code"), "main_code",
                                <<"c", "o", "n", "t", "i", "n", "u", "e", ";", "\n">>)
           [] OTHER -> g

\* generate_statement for each statement of a body, from statement i on.
RECURSIVE generate_statements(_, _, _)
generate_statements(g, body, i) ==
    IF i > Len(body) THEN g
    ELSE generate_statements(generate_statement(g, body[i]), body, i + 1)

\* The parameter loop of generate_function_def (codegen.c:203-218).
RECURSIVE generate_parameters(_, _, _)
generate_parameters(g, args, i) ==
    IF i > Len(args) THEN g
    ELSE generate_parameters(
             string_append(g, "function_definitions",
                 (IF i > 1 THEN <<",", " ">> ELSE <<>>)
                 \o (IF args[i].type = "AST_ARG"
                     THEN c_type_from_pyrinas_type(get_type_name(args[i].annotation))
                          \o <<" ">> \o args[i].arg
                     ELSE <<>>)),
             args, i + 1)

\* generate_function_def from its header on (codegen.c:193-238).
generate_function_def_found(g, node, func_symbol) ==
    [string_append(
         generate_statements(
             [string_append(
                  IF node.args # NullNode /\ node.args.type = "AST_ARGUMENTS"
                  THEN generate_parameters(
                           string_append(g, "function_definitions",
                               c_type_from_pyrinas_type(func_symbol.return_type)
                               \o <<" ">> \o node.name \o <<"(">>),
                           node.args.args, 1)
                  ELSE string_append(g, "function_definitions",
                           c_type_from_pyrinas_type(func_symbol.return_type)
                           \o <<" ">> \o node.name \o <<"(">>),
                  "function_definitions", <<")", " ", "{", "\n">>)
                  EXCEPT !.current_output = "function_definitions", !.indent_level = 1],
             node.body, 1),
         "function_definitions", <<"}", "\n", "\n">>)
         EXCEPT !.current_output = g.current_output, !.indent_level = 0]

\* generate_function_def (codegen.c:187-239).
generate_function_def(g, node) ==
    IF node = NullNode \/ node.type # "AST_FUNCTION_DEF" THEN g
    ELSE IF symbol_table_lookup(g.symbol_table, node.name) = NullSymbol THEN g
    ELSE generate_function_def_found(g, node, symbol_table_lookup(g.symbol_table, node.name))

\* The field loop of generate_struct_definition (codegen.c:149-157).
RECURSIVE generate_struct_fields(_, _, _)
generate_struct_fields(g, fields, i) ==
    IF i > Len(fields) THEN g
    ELSE generate_struct_fields(
             string_append(g, "struct_definitions",
                 <<" ", " ", " ", " ">> \o c_type_from_pyrinas_type(fields[i].type) \o <<" ">>
                 \o fields[i].name \o <<";", "\n">>),
             fields, i + 1)

\* generate_struct_definition (codegen.c:144-160).
generate_struct_definition(g, struct_symbol) ==
    string_append(
        generate_struct_fields(
            string_append(g, "struct_definitions",
                          <<"s", "t", "r", "u", "c", "t", " ">> \o struct_symbol.name \o <<" ", "{", "\n">>),
            struct_symbol.fields, 1),
        "struct_definitions", <<"}", ";", "\n", "\n">>)

\* The member loop of generate_enum_definition (codegen.c:167-182).
RECURSIVE generate_enum_members(_, _, _, _)
generate_enum_members(g, name, members, i) ==
    IF i > Len(members) THEN g
    ELSE generate_enum_members(
             string_append(g, "struct_definitions",
                 <<" ", " ", " ", " ">> \o name \o <<"_">> \o members[i].name \o <<" ", "=", " ">>
                 \o sprintf_d(members[i].value)
                 \o (IF i < Len(members) THEN <<",">> ELSE <<>>) \o <<"\n">>),
             name, members, i + 1)

\* generate_enum_definition (codegen.c:162-185).
generate_enum_definition(g, enum_symbol) ==
    string_append(
        generate_enum_members(
            string_append(g, "struct_definitions",
                          <<"e", "n", "u", "m", " ">> \o enum_symbol.name \o <<" ", "{", "\n">>),
            enum_symbol.name, enum_symbol.enum_members, 1),
        "struct_definitions", <<"}", ";", "\n", "\n">>)

\* The first loop of codegen_generate (codegen.c:89-99), from symbol i of the
\* global scope on.
RECURSIVE codegen_generate_definitions(_, _, _)
codegen_generate_definitions(g, scope, i) ==
    IF i > Len(scope) THEN g
    ELSE codegen_generate_definitions(
             IF scope[i].type = "SYM_STRUCT" THEN generate_struct_definition(g, scope[i])
             ELSE IF scope[i].type = "SYM_ENUM" THEN generate_enum_definition(g, scope[i])
             ELSE g,
             scope, i + 1)

\* The text the function named main is opened with (codegen.c:108).
Int_main == <<"i", "n", "t", " ", "m", "a", "i", "n", "(", ")", " ", "{", "\n">>

\* The body of the second loop of codegen_generate for the function named main
\* (codegen.c:106-116).
codegen_generate_main(g, item) ==
    [string_append(
         generate_statements([string_append(g, "main_code", Int_main)
                                  EXCEPT !.indent_level = 1],
                             item.body, 1),
         "main_code", <<"}", "\n">>)
         EXCEPT !.indent_level = 0]

\* The body of the second loop of codegen_generate (codegen.c:103-120).
codegen_generate_item(g, item) ==
    IF item.type # "AST_FUNCTION_DEF" THEN g
    ELSE IF item.name = S_main THEN codegen_generate_main(g, item)
    ELSE generate_function_def(g, item)

\* The second loop of codegen_generate, from item i on.
RECURSIVE codegen_generate_items(_, _, _)
codegen_generate_items(g, body, i) ==
    IF i > Len(body) THEN g
    ELSE codegen_generate_items(codegen_generate_item(g, body[i]), body, i + 1)

\* The parts combined with main_code before the function definitions.
codegen_generate_combined_main_first(g) ==
    g.includes \o <<"\n">>
    \o (IF g.struct_definitions # <<>> THEN g.struct_definitions \o <<"\n">> ELSE <<>>)
    \o g.main_code
    \o (IF g.function_definitions # <<>> THEN g.function_definitions \o <<"\n">> ELSE <<>>)

\* The parts combined at the end of codegen_generate (codegen.c:123-136).
codegen_generate_combined(g) ==
    g.includes \o <<"\n">>
    \o (IF g.struct_definitions # <<>> THEN g.struct_definitions \o <<"\n">> ELSE <<>>)
    \o (IF g.function_definitions # <<>> THEN g.function_definitions \o <<"\n">> ELSE <<>>)
    \o g.main_code

\* codegen_generate (codegen.c:85-142) on a generator and a Module, when the
\* final strdup succeeds.
codegen_generate(g, ast) ==
    codegen_generate_combined(
        codegen_generate_items(
            codegen_generate_definitions(g, g.symbol_table[1], 1), ast.body, 1))

-----------------------------------------------------------------------------
(* main (main.c:76-284) stepped one stage at a time.  The command line, the    *)
(* content of the input file and the outcomes of malloc, fopen and system are  *)
(* the environment's.                                                          *)

\* The number of command line arguments after the program name.
MaxArgs == 3

Arg_o == <<"-", "o">>

Arg_h == <<"-", "h">>

Arg_help == <<"-", "-", "h", "e", "l", "p">>

Arg_x == <<"-", "x">>

Arg_a_pyr == <<"a", ".", "p", "y", "r">>

Arg_b == <<"b">>

DrvArgs == {Arg_o, Arg_h, Arg_help, Arg_x, Arg_a_pyr, Arg_b}

DrvCommandLines == UNION {[1..n -> DrvArgs] : n \in 0..MaxArgs}

\*   def main():
\*       pass
Drv_main ==
    <<"d", "e", "f", " ", "m", "a", "i", "n", "(", ")", ":", "\n", " ", " ", " ", " ",
      "p", "a", "s", "s", "\n">>

\*   pass
Drv_pass ==
    <<"p", "a", "s", "s", "\n">>

\*   def
Drv_def ==
    <<"d", "e", "f", "\n">>

\*   $
Drv_bad ==
    <<"$", "\n">>

\* The contents the input file may have: a program, a module without main, a
\* text that does not parse, a character the lexer rejects, and the empty file.
DrvFiles == {Drv_main, Drv_pass, Drv_def, Drv_bad, <<>>}

\* What system returns: 0, or the wait status of a failed command, or -1.
SystemResults == {0, 256, -1}

\* The default of output_file (main.c:78).
A_out == <<"a", ".", "o", "u", "t">>

\* printf and fprintf(stderr, ...): the format and its arguments are appended.
printf(d, line) == [d EXCEPT !.stdout = Append(@, line)]

fprintf_stderr(d, line) == [d EXCEPT !.stderr = Append(@, line)]

print_usage(d) ==
    printf(printf(printf(printf(d, <<"Usage: %s [options] <input_file>\n">>),
                         <<"Options:\n">>),
                  <<"  -o <output>    Output executable name (default: a.out)\n">>),
           <<"  -h, --help     Show this help message\n">>)

\* The objects main creates are named after its variables: created lists them
\* in the order of their creation, freed in the order in which main hands
\* them to free or to their free function.
create(d, object) == [d EXCEPT !.created = Append(@, object)]

free(d, pointer) == [d EXCEPT !.freed = Append(@, pointer)]

\* lexer_free (lexer.c:186-192): the lexer with its indent stack and tokens.
lexer_free(d) == free(d, "lexer")

\* parser_free (parser.c:16-21).
parser_free(d) == free(d, "parser")

\* ast_node_free on the Module that parser_parse returned.
ast_node_free(d) == free(d, "ast")

\* semantic_analyzer_free (semantic.c:289-302).
semantic_analyzer_free(d) == free(d, "analyzer")

\* codegen_free (codegen.c:27-35).
codegen_free(d) == free(d, "codegen")

\* return status from main.
exit(d, status) == [pc |-> "exit", status |-> status] @@ d

\* The argument loop of main (main.c:81-102), from argv[i] on, and the check
\* that follows it (main.c:104-110).
RECURSIVE main_arguments(_, _)
main_arguments(d, i) ==
    IF i > Len(d.argv)
    THEN IF d.input_file = NULL
         THEN exit(print_usage(fprintf_stderr(d, <<"Error: No input file specified\n">>)), 1)
         ELSE [printf(d, <<"Compiling Pyrinas file: %s\n", d.input_file>>)
                   EXCEPT !.pc = "read"]
    ELSE IF d.argv[i] = Arg_o
    THEN IF i + 1 > Len(d.argv)
         THEN exit(fprintf_stderr(d, <<"Error: -o option requires an argument\n">>), 1)
         ELSE main_arguments([d EXCEPT !.output_file = d.argv[i + 1]], i + 2)
    ELSE IF d.argv[i] = Arg_h \/ d.argv[i] = Arg_help
    THEN exit(print_usage(d), 0)
    ELSE IF d.argv[i] # <<>> /\ d.argv[i][1] = "-"
    THEN exit(print_usage(fprintf_stderr(d, <<"Error: Unknown option '%s'\n", d.argv[i]>>)),
              1)
    ELSE IF d.input_file # NULL
    THEN exit(fprintf_stderr(d, <<"Error: Multiple input files specified\n">>), 1)
    ELSE main_arguments([d EXCEPT !.input_file = d.argv[i]], i + 1)

\* read_file (main.c:19-44): NULL when fopen or malloc fails, else the content.
read_file(d, content, malloc_ok) ==
    IF content = NULL
    THEN [d |-> fprintf_stderr(d, <<"Error: Cannot open file '%s'\n", d.input_file>>),
          content |-> NULL]
    ELSE IF ~malloc_ok
    THEN [d |-> fprintf_stderr(d, <<"Error: Memory allocation failed\n">>), content |-> NULL]
    ELSE [d |-> d, content |-> content]

\* main.c:112-116.
main_read(d, content, malloc_ok) ==
    LET file == read_file(d, content, malloc_ok)
    IN  IF file.content = NULL THEN exit(file.d, 1)
        ELSE [create(file.d, "source_code") EXCEPT !.source_code = file.content,
                                                    !.pc = "tokenize"]

\* main.c:118-133: new_lexer is what lexer_new returned.
main_tokenize(d, new_lexer) ==
    LET d1 == printf(d, <<"Tokenizing...\n">>)
    IN  IF new_lexer = NullObject
        THEN exit(free(fprintf_stderr(d1, <<"Error: Failed to create lexer\n">>),
                       "source_code"), 1)
        ELSE [create(d1, "lexer") EXCEPT
                  !.tokens = [items |-> lexer_tokenize(new_lexer).tokens], !.pc = "parse"]

\* main.c:150-171: parser_ok tells whether parser_new returned a Parser, and
\* parsed is what parser_parse returns for the tokens.
main_parse(d, parser_ok, parsed) ==
    LET d1 == printf(d, <<"Parsing...\n">>)
        d2 == [create(d1, "parser") EXCEPT !.parser = parsed.p]
    IN  IF ~parser_ok
        THEN exit(free(lexer_free(fprintf_stderr(d1, <<"Error: Failed to create parser\n">>)),
                       "source_code"), 1)
        ELSE IF parsed.node = NullNode
        THEN exit(free(lexer_free(parser_free(fprintf_stderr(
                      IF parsed.p.has_error /\ parsed.p.error_message # NoMessage
                      THEN fprintf_stderr(fprintf_stderr(d2, <<"Error: Parsing failed">>),
                                          <<": %s", parsed.p.error_message>>)
                      ELSE fprintf_stderr(d2, <<"Error: Parsing failed">>),
                      <<"\n">>))), "source_code"), 1)
        ELSE [create(d2, "ast") EXCEPT !.ast = parsed.node, !.pc = "analyze"]

\* main.c:180-204 with the result of analyze_ast ignored.
main_analyze_unchecked(d, analyzer_ok, analyzed) ==
    LET d1 == printf(d, <<"Analyzing semantics...\n">>)
    IN  [d1 EXCEPT !.analyzer = analyzed.an, !.accepted = analyzed.ok, !.pc = "generate"]

\* main.c:180-204: analyzer_ok tells whether semantic_analyzer_new returned an
\* analyzer, and analyzed is what analyze_ast returns for the Module.
main_analyze(d, analyzer_ok, analyzed) ==
    LET d1 == printf(d, <<"Analyzing semantics...\n">>)
        d2 == [create(d1, "analyzer") EXCEPT !.analyzer = analyzed.an]
    IN  IF ~analyzer_ok
        THEN exit(free(lexer_free(parser_free(ast_node_free(
                      fprintf_stderr(d1, <<"Error: Failed to create semantic analyzer\n">>)))),
                       "source_code"), 1)
        ELSE IF ~analyzed.ok
        THEN exit(free(lexer_free(parser_free(ast_node_free(semantic_analyzer_free(
                      fprintf_stderr(
                          IF analyzed.an.has_error /\ analyzed.an.error_message # NoMessage
                          THEN fprintf_stderr(
                                   fprintf_stderr(d2, <<"Error: Semantic analysis failed">>),
                                   <<": %s", analyzed.an.error_message>>)
                          ELSE fprintf_stderr(d2, <<"Error: Semantic analysis failed">>),
                          <<"\n">>))))), "source_code"), 1)
        ELSE [d2 EXCEPT !.accepted = TRUE, !.pc = "generate"]

\* What main sees of codegen_generate: NULL for a NULL generator, for a node
\* that is not a Module (codegen.c:86) and when the final strdup fails
\* (codegen.c:138); else the text.
codegen_generate_returned(codegen, ast, strdup_ok) ==
    IF codegen = NullObject \/ ast = NullNode \/ ast.type # "AST_MODULE" THEN NULL
    ELSE IF ~strdup_ok THEN NULL
    ELSE codegen_generate(codegen, ast)

\* main.c:206-229: codegen is what codegen_new returned.
main_generate(d, codegen, strdup_ok) ==
    LET d1 == printf(d, <<"Generating C code...\n">>)
        c_code == codegen_generate_returned(codegen, d.ast, strdup_ok)
    IN  IF codegen = NullObject
        THEN exit(free(lexer_free(parser_free(ast_node_free(semantic_analyzer_free(
                      fprintf_stderr(d1, <<"Error: Failed to create code generator\n">>))))),
                       "source_code"), 1)
        ELSE IF c_code = NULL
        THEN exit(free(lexer_free(parser_free(ast_node_free(semantic_analyzer_free(
                      codegen_free(fprintf_stderr(create(d1, "codegen"),
                                                  <<"Error: Code generation failed\n">>)))))),
                       "source_code"), 1)
        ELSE [create(create(d1, "codegen"), "c_code") EXCEPT !.c_code = c_code,
                                                              !.pc = "write"]

\* strrchr(str, '.') as an index into the string, 0 for NULL.
RECURSIVE strrchr_dot(_, _)
strrchr_dot(str, i) ==
    IF i = 0 THEN 0 ELSE IF str[i] = "." THEN i ELSE strrchr_dot(str, i - 1)

\* main.c:232-239: the name of the C file.
c_filename_of(input_file) ==
    LET dot == strrchr_dot(input_file, Len(input_file))
    IN  IF dot # 0 THEN SubSeq(input_file, 1, dot - 1) \o <<".", "c">>
        ELSE input_file \o <<".", "c">>

\* write_file (main.c:46-56).
write_file(d, filename, content, fopen_ok) ==
    IF ~fopen_ok
    THEN [d |-> fprintf_stderr(d, <<"Error: Cannot create file '%s'\n", filename>>),
          ok |-> FALSE]
    ELSE [d |-> [d EXCEPT !.files = Append(@, [name |-> filename, content |-> content])],
          ok |-> TRUE]

\* The releases main makes once the C text exists (main.c:243-249, 263-269
\* and 275-281).
main_cleanup(d) ==
    free(lexer_free(parser_free(ast_node_free(semantic_analyzer_free(codegen_free(
        free(d, "c_code")))))), "source_code")

\* main.c:231-251 returning without a release when write_file has failed.
main_write_no_cleanup(d, fopen_ok) ==
    LET c_filename == c_filename_of(d.input_file)
        written == write_file(printf([d EXCEPT !.c_filename = c_filename],
                                     <<"Writing C code to: %s\n", c_filename>>),
                              c_filename, d.c_code, fopen_ok)
    IN  IF ~written.ok THEN exit(written.d, 1)
        ELSE [written.d EXCEPT !.pc = "compile"]

\* main.c:231-251.
main_write(d, fopen_ok) ==
    LET c_filename == c_filename_of(d.input_file)
        written == write_file(printf([d EXCEPT !.c_filename = c_filename],
                                     <<"Writing C code to: %s\n", c_filename>>),
                              c_filename, d.c_code, fopen_ok)
    IN  IF ~written.ok THEN exit(main_cleanup(written.d), 1)
        ELSE [written.d EXCEPT !.pc = "compile"]

\* compile_c_code (main.c:58-74): result is what system returned.
compile_c_code(d, c_file, output_file, result) ==
    LET command == <<"gcc -I ../runtime -o %s %s ../runtime/pyrinas.o -lm",
                     output_file, c_file>>
        d1 == [printf(d, <<"Compiling C code: %s\n", command>>)
                   EXCEPT !.commands = Append(@, [command |-> command, result |-> result])]
    IN  IF result # 0
        THEN [d |-> fprintf_stderr(d1, <<"Error: C compilation failed\n">>), ok |-> FALSE]
        ELSE [d |-> d1, ok |-> TRUE]

\* main.c:259-284 with the result of compile_c_code ignored.
main_compile_unchecked(d, result) ==
    exit(printf(compile_c_code(printf(d, <<"Compiling to executable: %s\n", d.output_file>>),
                               d.c_filename, d.output_file, result).d,
                <<"Compilation successful!\n">>), 0)

\* main.c:259-284.
main_compile(d, result) ==
    LET compiled == compile_c_code(
                        printf(d, <<"Compiling to executable: %s\n", d.output_file>>),
                        d.c_filename, d.output_file, result)
    IN  IF ~compiled.ok THEN exit(main_cleanup(compiled.d), 1)
        ELSE exit(main_cleanup(printf(compiled.d, <<"Compilation successful!\n">>)), 0)

\* main is entered with a command line.
DrvInit ==
    \E argv \in DrvCommandLines :
        drv = [pc |-> "main", argv |-> argv, input_file |-> NULL, output_file |-> A_out,
               source_code |-> NULL, tokens |-> NullArray, parser |-> NullObject,
               ast |-> NullNode, analyzer |-> NullObject, accepted |-> FALSE,
               c_code |-> NULL, c_filename |-> NULL, files |-> <<>>, commands |-> <<>>,
               stdout |-> <<>>, stderr |-> <<>>, created |-> <<>>, freed |-> <<>>]

DrvArguments ==
    /\ drv.pc = "main"
    /\ drv' = main_arguments(drv, 1)
    /\ UNCHANGED <<tc, lexer, parser, sem, cg>>

DrvRead ==
    /\ drv.pc = "read"
    /\ \E content \in DrvFiles \cup {NULL}, malloc_ok \in BOOLEAN :
           drv' = main_read(drv, content, malloc_ok)
    /\ UNCHANGED <<tc, lexer, parser, sem, cg>>

DrvTokenize ==
    /\ drv.pc = "tokenize"
    /\ \E new_lexer \in {lexer_new(drv.source_code), NullObject} :
           drv' = main_tokenize(drv, new_lexer)
    /\ UNCHANGED <<tc, lexer, parser, sem, cg>>

DrvParse ==
    /\ drv.pc = "parse"
    /\ \E parser_ok \in BOOLEAN :
           drv' = main_parse(drv, parser_ok, parser_parse(parser_new(drv.tokens.items)))
    /\ UNCHANGED <<tc, lexer, parser, sem, cg>>

DrvAnalyze ==
    /\ drv.pc = "analyze"
    /\ \E analyzer_ok \in BOOLEAN :
           drv' = main_analyze(drv, analyzer_ok,
                               analyze_ast(semantic_analyzer_new(drv.input_file), drv.ast))
    /\ UNCHANGED <<tc, lexer, parser, sem, cg>>

\* codegen_new (codegen.c:5-25) returns NULL or a generator for the symbol table.
DrvGenerate ==
    /\ drv.pc = "generate"
    /\ \E codegen \in {codegen_new(drv.analyzer.symbol_table), NullObject},
          strdup_ok \in BOOLEAN :
           drv' = main_generate(drv, codegen, strdup_ok)
    /\ UNCHANGED <<tc, lexer, parser, sem, cg>>

DrvWrite ==
    /\ drv.pc = "write"
    /\ \E fopen_ok \in BOOLEAN : drv' = main_write(drv, fopen_ok)
    /\ UNCHANGED <<tc, lexer, parser, sem, cg>>

DrvCompile ==
    /\ drv.pc = "compile"
    /\ \E result \in SystemResults : drv' = main_compile(drv, result)
    /\ UNCHANGED <<tc, lexer, parser, sem, cg>>

SpecDriverInit ==
    /\ DrvInit
    /\ tc = TcIdle
    /\ lexer = LexerIdle
    /\ parser = ParserIdle
    /\ sem = SemIdle
    /\ cg = CgIdle

SpecDriverNext ==
    \/ DrvArguments
    \/ DrvRead
    \/ DrvTokenize
    \/ DrvParse
    \/ DrvAnalyze
    \/ DrvGenerate
    \/ DrvWrite
    \/ DrvCompile

SpecDriver == SpecDriverInit /\ [][SpecDriverNext]_vars

\* The lines main prints when it starts a stage, in the order of main.c.
StageLines ==
    <<"Tokenizing...\n", "Parsing...\n", "Analyzing semantics...\n",
      "Generating C code...\n", "Writing C code to: %s\n", "Compiling to executable: %s\n">>

\* The stage lines among the lines printed so far.
RECURSIVE StagesOf(_)
StagesOf(lines) ==
    IF lines = <<>> THEN <<>>
    ELSE IF \E k \in 1..Len(StageLines) : lines[1][1] = StageLines[k]
    THEN <<lines[1][1]>> \o StagesOf(Tail(lines))
    ELSE StagesOf(Tail(lines))

StagesStarted == StagesOf(drv.stdout)

\* The messages main prints when parsing, analysis or generation has failed.
StageFailures ==
    {"Error: Parsing failed", "Error: Semantic analysis failed",
     "Error: Code generation failed\n"}

StageFailed == \E k \in 1..Len(drv.stderr) : drv.stderr[k][1] \in StageFailures

\* C1: the stages start in the order lex, parse, analysis, generation, write,
\* host compiler; each starts only after the stage before it succeeded; and
\* once parsing, analysis or generation has failed no C file is written and
\* no command is run.
C1_StagesInOrder ==
    /\ StagesStarted = SubSeq(StageLines, 1, Len(StagesStarted))
    /\ Len(StagesStarted) >= 1 => drv.source_code # NULL
    /\ Len(StagesStarted) >= 2 => drv.tokens # NullArray
    /\ Len(StagesStarted) >= 3 => drv.ast # NullNode
    /\ Len(StagesStarted) >= 4 => drv.accepted
    /\ Len(StagesStarted) >= 5 => drv.c_code # NULL
    /\ Len(StagesStarted) >= 6 => Len(drv.files) = 1
    /\ drv.files # <<>> => Len(StagesStarted) >= 5
    /\ drv.commands # <<>> => Len(StagesStarted) >= 6
    /\ StageFailed => drv.files = <<>> /\ drv.commands = <<>>

\* main has returned after a failed analysis: three stages were started, no C
\* file is written and no command was run.
C1_Witness ==
    /\ drv.pc = "exit"
    /\ \E k \in 1..Len(drv.stderr) : drv.stderr[k][1] = "Error: Semantic analysis failed"
    /\ StagesStarted = SubSeq(StageLines, 1, 3)
    /\ drv.files = <<>>
    /\ drv.commands = <<>>

\* The command line has no help flag and exactly one input file: one argument
\* that is neither an option nor the argument of -o.
OneInputNoHelp(argv) ==
    /\ \A i \in 1..Len(argv) : argv[i] # Arg_h /\ argv[i] # Arg_help
    /\ Cardinality({i \in 1..Len(argv) :
                        /\ argv[i][1] # "-"
                        /\ ~(i > 1 /\ argv[i - 1] = Arg_o)}) = 1

\* Every stage of the run succeeded: the file was read, tokenized, parsed,
\* accepted by the analyzer, the C text was generated and written, and the
\* host compiler returned 0.
AllStagesSucceeded ==
    /\ drv.source_code # NULL
    /\ drv.tokens # NullArray
    /\ drv.ast # NullNode
    /\ drv.accepted
    /\ drv.c_code # NULL
    /\ Len(drv.files) = 1
    /\ Len(drv.commands) = 1
    /\ drv.commands[1].result = 0

\* C2: when main has returned from a command line with one input file and no
\* help flag, the status is 0 if every stage succeeded and 1 otherwise.
C2_StatusZeroIffAllStagesSucceeded ==
    (drv.pc = "exit" /\ OneInputNoHelp(drv.argv)) =>
        /\ drv.status \in {0, 1}
        /\ drv.status = 0 <=> AllStagesSucceeded

\* main has returned 0 from a command line with one input file, after the
\* host compiler returned 0.
C2_Witness ==
    /\ drv.pc = "exit"
    /\ OneInputNoHelp(drv.argv)
    /\ drv.status = 0
    /\ AllStagesSucceeded

-----------------------------------------------------------------------------
(* codegen_generate stepped over the items of accepted modules *)

\*   x: float = 1.5
Emit_declare_x ==
    <<"x", ":", " ", "f", "l", "o", "a", "t", " ", "=", " ", "1", ".", "5", "\n">>

\*   x = 2.5
Emit_assign_x ==
    <<"x", " ", "=", " ", "2", ".", "5", "\n">>

\*   print(x)
Emit_print_x ==
    <<"p", "r", "i", "n", "t", "(", "x", ")", "\n">>

\*   print(r)
Emit_print_r ==
    <<"p", "r", "i", "n", "t", "(", "r", ")", "\n">>

\*   print(1.5)
Emit_print_const ==
    <<"p", "r", "i", "n", "t", "(", "1", ".", "5", ")", "\n">>

\*   print(q.w)
Emit_print_field ==
    <<"p", "r", "i", "n", "t", "(", "q", ".", "w", ")", "\n">>

\*   return
Emit_return ==
    <<"r", "e", "t", "u", "r", "n", "\n">>

\*   print(a)
Emit_print_a ==
    <<"p", "r", "i", "n", "t", "(", "a", ")", "\n">>

\*   r: float = 1.5
Emit_declare_r ==
    <<"r", ":", " ", "f", "l", "o", "a", "t", " ", "=", " ", "1", ".", "5", "\n">>

\*   class Q:
\*       w: float
Emit_class_Q ==
    <<"c", "l", "a", "s", "s", " ", "Q", ":", "\n", " ", " ", " ", " ", "w", ":", " ",
      "f", "l", "o", "a", "t", "\n">>

\*   q: Q
Emit_declare_q ==
    <<"q", ":", " ", "Q", "\n">>

\*   def f(a: str):
\*       pass
Emit_def_f ==
    <<"d", "e", "f", " ", "f", "(", "a", ":", " ", "s", "t", "r", ")", ":", "\n", " ",
      " ", " ", " ", "p", "a", "s", "s", "\n">>

\*   def main():
\*       pass
Emit_def_main ==
    <<"d", "e", "f", " ", "m", "a", "i", "n", "(", ")", ":", "\n", " ", " ", " ", " ",
      "p", "a", "s", "s", "\n">>

\* The declaration c: bool = 1 op 2 for a comparison operator.
CompareStatement(op) == <<"c", ":", " ", "b", "o", "o", "l", " ", "=", " ", "1", " ">> \o op \o <<" ", "2", "\n">>

\*   if 1:
\*       pass
Emit_if == <<"i", "f", " ", "1", ":", "\n", " ", " ", " ", " ", "p", "a", "s", "s", "\n">>

\*   while 1:
\*       pass
Emit_while == <<"w", "h", "i", "l", "e", " ", "1", ":", "\n", " ", " ", " ", " ", "p", "a", "s", "s", "\n">>

\*   for k in r:
\*       pass
Emit_for == <<"f", "o", "r", " ", "k", " ", "i", "n", " ", "r", ":", "\n", " ", " ", " ", " ", "p", "a", "s", "s", "\n">>

\* The texts by name, and the node parse_statement returns for each.
EmitTexts ==
    [Emit_declare_x |-> Emit_declare_x,
     Emit_assign_x |-> Emit_assign_x,
     Emit_print_x |-> Emit_print_x,
     Emit_print_r |-> Emit_print_r,
     Emit_print_const |-> Emit_print_const,
     Emit_print_field |-> Emit_print_field,
     Emit_return |-> Emit_return,
     Emit_print_a |-> Emit_print_a,
     Emit_declare_r |-> Emit_declare_r,
     Emit_class_Q |-> Emit_class_Q,
     Emit_declare_q |-> Emit_declare_q,
     Emit_def_f |-> Emit_def_f,
     Emit_def_main |-> Emit_def_main,
     Emit_if |-> Emit_if,
     Emit_while |-> Emit_while,
     Emit_for |-> Emit_for,
     Emit_compare_eq |-> CompareStatement(<<"=", "=">>),
     Emit_compare_ne |-> CompareStatement(<<"!", "=">>),
     Emit_compare_lt |-> CompareStatement(<<"<">>),
     Emit_compare_le |-> CompareStatement(<<"<", "=">>),
     Emit_compare_gt |-> CompareStatement(<<">">>),
     Emit_compare_ge |-> CompareStatement(<<">", "=">>)]

EmitNodes == [name \in DOMAIN EmitTexts |-> ParseStatement(EmitTexts[name])]

\* The statements the bodies of f and of main are made of.
EmitStatements ==
    {"Emit_declare_x", "Emit_assign_x", "Emit_print_x", "Emit_print_r", "Emit_print_const",
     "Emit_print_field", "Emit_return", "Emit_print_a"}

\* The longest body of f.
MaxEmitStatements == 2

\* The bodies of f, and those of main: at most one statement.
EmitBodies(max) == UNION {[1..n -> EmitStatements] : n \in 0..max}

\* The items before the functions: none, or a float variable, a struct with a
\* float field and a variable of the struct.
EmitGlobals(nodes) ==
    <<(<<>>), <<nodes.Emit_declare_r, nodes.Emit_class_Q, nodes.Emit_declare_q>> >>

\* The Module: the globals, then f and main in one of the two orders.
EmitModule(nodes, globals, f_body, main_body, main_first) ==
    LET f == FunctionDef(nodes.Emit_def_f, [k \in 1..Len(f_body) |-> nodes[f_body[k]]])
        main == FunctionDef(nodes.Emit_def_main,
                            [k \in 1..Len(main_body) |-> nodes[main_body[k]]])
    IN  [type |-> "AST_MODULE",
         body |-> globals \o (IF main_first THEN <<main, f>> ELSE <<f, main>>)]

\* The If, While or For statement of a header with the statements as its body.
Block(header, body) == [header EXCEPT !.body = body]

\* The names of the six comparisons.
EmitCompares ==
    {"Emit_compare_eq", "Emit_compare_ne", "Emit_compare_lt", "Emit_compare_le",
     "Emit_compare_gt", "Emit_compare_ge"}

\* The statements emitted on their own: the six comparisons, and an if, a
\* while and a for statement around a print and around a declaration and an
\* assignment.
EmitCaseStatements(nodes) ==
    {nodes[compare] : compare \in EmitCompares}
    \cup {Block(header, body) :
              header \in {nodes.Emit_if, nodes.Emit_while, nodes.Emit_for},
              body \in {<<nodes.Emit_print_const>>,
                        <<nodes.Emit_declare_x, nodes.Emit_assign_x>>}}

\* The modules with one of them as the body of f or of main.
EmitCases(nodes) ==
    {[type |-> "AST_MODULE",
      body |-> <<FunctionDef(nodes.Emit_def_f, IF in_main THEN <<>> ELSE <<stmt>>),
                 FunctionDef(nodes.Emit_def_main, IF in_main THEN <<stmt>> ELSE <<>>)>>] :
         stmt \in EmitCaseStatements(nodes), in_main \in BOOLEAN}

\* main.c:192-217: a Module the analyzer has accepted is handed to
\* codegen_generate with a new generator for the symbol table of the analyzer.
EmitStart(ast) ==
    \E analyzed \in {analyze_ast(semantic_analyzer_new(File_program), ast)} :
        /\ analyzed.ok
        /\ cg = codegen_new(analyzed.an.symbol_table)
                @@ [pc |-> "definitions", ast |-> ast, i |-> 1, c_code |-> NULL]

EmitInit ==
    \E nodes \in {EmitNodes} :
        \/ \E globals \in 1..Len(EmitGlobals(nodes)),
              f_body \in EmitBodies(MaxEmitStatements),
              main_body \in EmitBodies(1), main_first \in BOOLEAN :
               \E ast \in {EmitModule(nodes, EmitGlobals(nodes)[globals], f_body, main_body,
                                       main_first)} :
                   EmitStart(ast)
        \/ \E ast \in EmitCases(nodes) : EmitStart(ast)

\* The first loop of codegen_generate.
EmitDefinitions ==
    /\ cg.pc = "definitions"
    /\ cg' = [codegen_generate_definitions(cg, cg.symbol_table[1], 1) EXCEPT !.pc = "items"]
    /\ UNCHANGED <<tc, lexer, parser, sem, drv>>

\* The module item the second loop stands at.
EmitAtItem == cg.pc = "items" /\ cg.i <= Len(cg.ast.body)

EmitItem == cg.ast.body[cg.i]

\* One iteration of the second loop at the function named main.
EmitMain ==
    /\ EmitAtItem
    /\ EmitItem.type = "AST_FUNCTION_DEF" /\ EmitItem.name = S_main
    /\ cg' = [codegen_generate_item(cg, EmitItem) EXCEPT !.i = @ + 1]
    /\ UNCHANGED <<tc, lexer, parser, sem, drv>>

\* One iteration of the second loop at another function.
EmitFunctionDef ==
    /\ EmitAtItem
    /\ EmitItem.type = "AST_FUNCTION_DEF" /\ EmitItem.name # S_main
    /\ cg' = [codegen_generate_item(cg, EmitItem) EXCEPT !.i = @ + 1]
    /\ UNCHANGED <<tc, lexer, parser, sem, drv>>

\* One iteration of the second loop at an item that is no function.
EmitOtherItem ==
    /\ EmitAtItem
    /\ EmitItem.type # "AST_FUNCTION_DEF"
    /\ cg' = [codegen_generate_item(cg, EmitItem) EXCEPT !.i = @ + 1]
    /\ UNCHANGED <<tc, lexer, parser, sem, drv>>

\* The second loop is left: the parts are combined and the copy strdup made
\* of them is returned, NULL when strdup failed.
EmitReturn ==
    /\ cg.pc = "items"
    /\ cg.i > Len(cg.ast.body)
    /\ \E strdup_ok \in BOOLEAN :
           cg' = [cg EXCEPT !.pc = "returned",
                            !.c_code = IF strdup_ok THEN codegen_generate_combined(cg)
                                       ELSE NULL]
    /\ UNCHANGED <<tc, lexer, parser, sem, drv>>

SpecCodegenInit ==
    /\ EmitInit
    /\ tc = TcIdle
    /\ lexer = LexerIdle
    /\ parser = ParserIdle
    /\ sem = SemIdle
    /\ drv = DrvIdle

SpecCodegenNext ==
    \/ EmitDefinitions
    \/ EmitMain
    \/ EmitFunctionDef
    \/ EmitOtherItem
    \/ EmitReturn

SpecCodegen == SpecCodegenInit /\ [][SpecCodegenNext]_vars

\* The positions at which the pattern occurs in the text.
Occurrences(text, pattern) ==
    {i \in 1..(Len(text) - Len(pattern) + 1) : SubSeq(text, i, i + Len(pattern) - 1) = pattern}

\* The positions at which the lines of the text begin.
LineStarts(text) == {i \in 1..Len(text) : i = 1 \/ text[i - 1] = "\n"}

\* The position of the newline that ends the line beginning at i, or the
\* position after the text.
LineEnd(text, i) ==
    CHOOSE j \in i..(Len(text) + 1) :
        /\ j = Len(text) + 1 \/ text[j] = "\n"
        /\ \A k \in i..(j - 1) : text[k] # "\n"

\* The line beginning at i is the include line, or opens a definition: it is
\* not indented and ends in an opening brace.
OpensDefinition(text, i) ==
    \/ i \in Occurrences(text, <<"#", "i", "n", "c", "l", "u", "d", "e">>)
    \/ /\ text[i] \notin {" ", "\n", "}"}
       /\ text[LineEnd(text, i) - 1] = "{"

\* The indexes of the module items that are function definitions.
EmittedFunctions(ast) == {i \in 1..Len(ast.body) : ast.body[i].type = "AST_FUNCTION_DEF"}

\* codegen_generate has returned a text.
EmitReturned == cg.pc = "returned" /\ cg.c_code # NULL

\* C12: the C text generated for an accepted program with a main holds
\* exactly one "int main()", and the include line and the lines that open the
\* struct, enum and other function definitions all come before it.
C12_OneMainAfterDefinitions ==
    EmitReturned =>
        /\ Cardinality(Occurrences(cg.c_code, <<"i", "n", "t", " ", "m", "a", "i", "n", "(", ")">>)) = 1
        /\ \A i \in LineStarts(cg.c_code) :
               OpensDefinition(cg.c_code, i) =>
                   \A m \in Occurrences(cg.c_code, <<"i", "n", "t", " ", "m", "a", "i", "n", "(", ")">>) : i <= m

\* The text is returned for a module with a struct whose main comes before its
\* other function.
C12_Witness ==
    /\ EmitReturned
    /\ cg.struct_definitions # <<>>
    /\ cg.function_definitions # <<>>
    /\ \E i, j \in EmittedFunctions(cg.ast) :
           i < j /\ cg.ast.body[i].name = S_main /\ cg.ast.body[j].name # S_main
    /\ Cardinality(Occurrences(cg.c_code, <<"i", "n", "t", " ", "m", "a", "i", "n", "(", ")">>)) = 1

\* A generator about to write the body of a function that is not main.
EmitInFunction(table) ==
    [codegen_new(table) EXCEPT !.current_output = "function_definitions", !.indent_level = 1]

\* The C text of a body statement: what generate_statement writes for it,
\* whichever buffer it writes to.
StatementText(table, stmt) ==
    generate_statement(EmitInFunction(table), stmt).function_definitions
    \o generate_statement(EmitInFunction(table), stmt).main_code

RECURSIVE BodyText(_, _, _)
BodyText(table, body, i) ==
    IF i > Len(body) THEN <<>>
    ELSE StatementText(table, body[i]) \o BodyText(table, body, i + 1)

\* The header of a function definition: return type, name and parameters, up
\* to the opening brace.
HeaderText(table, node) ==
    LET text == generate_function_def(codegen_new(table), [node EXCEPT !.body = <<>>])
                    .function_definitions
    IN  SubSeq(text, 1, Len(text) - 3)

\* The second loop of codegen_generate stands at a function other than main.
AtOtherFunction ==
    /\ EmitAtItem
    /\ EmitItem.type = "AST_FUNCTION_DEF"
    /\ EmitItem.name # S_main

\* C11: emitting a top-level function other than main appends its header, the
\* C text of each of its body statements and its closing brace, in this order,
\* to the function definitions, and leaves main_code as it was.
C11_FunctionTextLeavesMainCode ==
    [][AtOtherFunction =>
          /\ cg'.function_definitions
                 = cg.function_definitions
                   \o HeaderText(cg.symbol_table, EmitItem)
                   \o BodyText(cg.symbol_table, EmitItem.body, 1)
                   \o <<"}", "\n", "\n">>
          /\ cg'.main_code = cg.main_code
      ]_vars

\* The type an annotation of the program gives the name inside the function:
\* that of a parameter, else of a declaration of the body, else of a
\* declaration at the top level; NULL when there is none.
DeclaredType(ast, func, name) ==
    IF \E k \in 1..Len(func.args.args) : func.args.args[k].arg = name
    THEN get_type_name(func.args.args[CHOOSE k \in 1..Len(func.args.args) :
                                          func.args.args[k].arg = name].annotation)
    ELSE IF \E k \in 1..Len(func.body) :
                func.body[k].type = "AST_ANN_ASSIGN" /\ func.body[k].target.id = name
    THEN get_type_name(func.body[CHOOSE k \in 1..Len(func.body) :
                                     /\ func.body[k].type = "AST_ANN_ASSIGN"
                                     /\ func.body[k].target.id = name].annotation)
    ELSE IF \E k \in 1..Len(ast.body) :
                ast.body[k].type = "AST_ANN_ASSIGN" /\ ast.body[k].target.id = name
    THEN get_type_name(ast.body[CHOOSE k \in 1..Len(ast.body) :
                                    /\ ast.body[k].type = "AST_ANN_ASSIGN"
                                    /\ ast.body[k].target.id = name].annotation)
    ELSE NULL

\* The type the class of the program gives its field; NULL when there is none.
FieldType(ast, class_name, field) ==
    IF \E k \in 1..Len(ast.body) :
           /\ ast.body[k].type = "AST_CLASS_DEF"
           /\ ast.body[k].name = class_name
           /\ \E l \in 1..Len(ast.body[k].body) :
                  /\ ast.body[k].body[l].type = "AST_ANN_ASSIGN"
                  /\ ast.body[k].body[l].target.id = field
    THEN LET k == CHOOSE k \in 1..Len(ast.body) :
                      ast.body[k].type = "AST_CLASS_DEF" /\ ast.body[k].name = class_name
             l == CHOOSE l \in 1..Len(ast.body[k].body) :
                      /\ ast.body[k].body[l].type = "AST_ANN_ASSIGN"
                      /\ ast.body[k].body[l].target.id = field
         IN  get_type_name(ast.body[k].body[l].annotation)
    ELSE NULL

\* The type of the argument of print: of a constant, of a variable, of a
\* field of a struct variable; NULL when it is not known.
ArgumentType(ast, func, arg) ==
    IF arg.type = "AST_CONSTANT"
    THEN CASE arg.value.type = "CONST_INT" -> S_int
           [] arg.value.type = "CONST_FLOAT" -> S_float
           [] arg.value.type = "CONST_STRING" -> S_str
           [] arg.value.type = "CONST_BOOL" -> S_bool
           [] OTHER -> NULL
    ELSE IF arg.type = "AST_NAME" THEN DeclaredType(ast, func, arg.id)
    ELSE IF arg.type = "AST_ATTRIBUTE" /\ arg.value.type = "AST_NAME"
    THEN FieldType(ast, DeclaredType(ast, func, arg.value.id), arg.attr)
    ELSE NULL

\* The printf call with the format the type calls for: %f for float, %s for
\* str, %d for all else.
PrintfText(type, arg) ==
    <<"p", "r", "i", "n", "t", "f", "(">>
    \o (IF type = S_float THEN <<"\"", "%", "f", "\\", "n", "\"", ",", " ">>
        ELSE IF type = S_str THEN <<"\"", "%", "s", "\\", "n", "\"", ",", " ">>
        ELSE <<"\"", "%", "d", "\\", "n", "\"", ",", " ">>)
    \o generate_expression(codegen_new(symbol_table_new), arg, "main_code").main_code
    \o <<")">>

\* The statement is print(e).
IsPrint(stmt) ==
    /\ stmt.type = "AST_EXPR_STMT"
    /\ stmt.value.type = "AST_CALL"
    /\ stmt.value.func.type = "AST_NAME"
    /\ stmt.value.func.id = S_print
    /\ Len(stmt.value.args) = 1

\* C13: for each print(e) of an accepted program the generated text holds the
\* printf call whose format is %f when e is float, %s when it is str and %d
\* otherwise, e being a constant, a variable (global, parameter or local) or
\* a field of a struct variable.
C13_PrintFormatFollowsType ==
    EmitReturned =>
        \A i \in EmittedFunctions(cg.ast) :
            \A k \in 1..Len(cg.ast.body[i].body) :
                IsPrint(cg.ast.body[i].body[k]) =>
                    Occurrences(cg.c_code,
                        PrintfText(ArgumentType(cg.ast, cg.ast.body[i],
                                                cg.ast.body[i].body[k].value.args[1]),
                                   cg.ast.body[i].body[k].value.args[1])) # {}

\* The C text of an expression: what generate_expression writes for it.
ExpressionText(table, node) ==
    generate_expression(codegen_new(table), node, "main_code").main_code

\* The C operator of a comparison operator.
OperatorText(op) ==
    CASE op = "CMP_EQ" -> <<"=", "=">>
      [] op = "CMP_NOTEQ" -> <<"!", "=">>
      [] op = "CMP_LT" -> <<"<">>
      [] op = "CMP_LTE" -> <<"<", "=">>
      [] op = "CMP_GT" -> <<">">>
      [] op = "CMP_GTE" -> <<">", "=">>

\* A Compare node with one operator.
IsSingleCompare(node) ==
    /\ node # NullNode
    /\ node.type = "AST_COMPARE"
    /\ Len(node.ops) = 1
    /\ Len(node.comparators) = 1

\* C23: for a Compare node with one operator op, the value of a declaration in
\* an emitted function body, generate_expression writes the text of the left
\* operand, a space, the same operator op, a space and the text of the right
\* operand, and the generated text holds it.
C23_CompareOperatorEmitted ==
    EmitReturned =>
        \A i \in EmittedFunctions(cg.ast) :
            \A k \in 1..Len(cg.ast.body[i].body) :
                (/\ cg.ast.body[i].body[k].type = "AST_ANN_ASSIGN"
                 /\ IsSingleCompare(cg.ast.body[i].body[k].value)) =>
                    LET compare == cg.ast.body[i].body[k].value
                        text == ExpressionText(cg.symbol_table, compare.left)
                                \o <<" ">> \o OperatorText(compare.ops[1]) \o <<" ">>
                                \o ExpressionText(cg.symbol_table, compare.comparators[1])
                    IN  /\ ExpressionText(cg.symbol_table, compare) = text
                        /\ Occurrences(cg.c_code, text) # {}

\* The text without the spaces it begins with.
Unindented(text) ==
    LET first == CHOOSE i \in 1..(Len(text) + 1) :
                     /\ i = Len(text) + 1 \/ text[i] # " "
                     /\ \A k \in 1..(i - 1) : text[k] = " "
    IN  SubSeq(text, first, Len(text))

\* The C keyword of an If, While or For statement.
Keyword(stmt) ==
    CASE stmt.type = "AST_IF" -> <<"i", "f">>
      [] stmt.type = "AST_WHILE" -> <<"w", "h", "i", "l", "e">>
      [] stmt.type = "AST_FOR" -> <<"f", "o", "r">>

\* C24: for every If, While and For statement of an emitted function body the
\* generated text holds the C keyword of the statement followed by a pair of
\* braces, and the C text of each statement of its body stands between the
\* braces.
C24_ControlFlowEmitted ==
    EmitReturned =>
        \A i \in EmittedFunctions(cg.ast) :
            \A k \in 1..Len(cg.ast.body[i].body) :
                cg.ast.body[i].body[k].type \in {"AST_IF", "AST_WHILE", "AST_FOR"} =>
                    LET stmt == cg.ast.body[i].body[k] IN
                    \E p \in Occurrences(cg.c_code, Keyword(stmt)) :
                        \E open \in (p + 1)..Len(cg.c_code) :
                            \E close \in (open + 1)..Len(cg.c_code) :
                                /\ cg.c_code[open] = "{"
                                /\ cg.c_code[close] = "}"
                                /\ \A s \in 1..Len(stmt.body) :
                                       \E q \in Occurrences(cg.c_code,
                                                   Unindented(StatementText(cg.symbol_table,
                                                                            stmt.body[s]))) :
                                           open < q /\ q < close

\* The sequence in reverse order.
Reverse(seq) == [k \in 1..Len(seq) |-> seq[Len(seq) + 1 - k]]

\* C19: when main returns after the source was read, every object created so
\* far (source text, lexer, parser, AST, analyzer, code generator, C text) has
\* been released exactly once, in the reverse of the order of creation.
C19_ReleasedInReverseOrder ==
    (drv.pc = "exit" /\ drv.source_code # NULL) => drv.freed = Reverse(drv.created)

\* main has returned 1 after write_file failed, all seven objects created and
\* released.
C19_Witness ==
    /\ drv.pc = "exit"
    /\ drv.status = 1
    /\ drv.files = <<>>
    /\ drv.created = <<"source_code", "lexer", "parser", "ast", "analyzer", "codegen",
                       "c_code">>
    /\ drv.freed = Reverse(drv.created)

=============================================================================
